---- MODULE Spec2Model ----
(***************************************************************************)
(* The quiz game of daddys_playground: the four mini-game components       *)
(* (MultiplicationGame, WordMathGame, AnimalGame, OppositesGame), the      *)
(* React hooks that drive one round (state, refs, effects, timers) and the *)
(* App that owns the match.                                                *)
(*                                                                         *)
(* The specifications share the variables:                                 *)
(*   Spec        one game component under an arbitrary parent, which may   *)
(*               mount it, re-render it with other props and unmount it;   *)
(*   ThrowSpec   Spec with an initializeGame whose try block may throw;    *)
(*   ImageSpec   Spec with the picture of the round loading or failing;    *)
(*   AppSpec     the component under the App of part_000 / GamesContainer; *)
(*   MatchSpec   the App under an arbitrary game component;                *)
(*   BoundarySpec MatchSpec with the two error boundaries;                 *)
(*   ScoreSpec   the scoring expression of handleOptionSelect on its own;  *)
(*   OptionsSpec one call of generateOptions, pass by pass;                *)
(*   ProblemSpec one call of generateProblem or generateWordProblem;       *)
(*   PreloadSpec the image preloaders and their caches;                    *)
(*   TwinSpec    two Apps whose settings differ in the difficulty only;    *)
(*   CacheSpec   the three image caches under loads, unmounts and resets;  *)
(*   BatchSpec   the calls of preloadImages that GamesContainer makes;      *)
(*   ResetSpec   BoundarySpec with the theme button.                        *)
(***************************************************************************)
EXTENDS Integers, Sequences, FiniteSets, TLC

(***************************************************************************)
(* Bounds of the model (not program constants).                            *)
(***************************************************************************)
MaxTimer == 2          \* Spec: timerDuration is drawn from 1..MaxTimer
MaxDifficulty == 1     \* Spec: difficulty is drawn from 1..MaxDifficulty
MaxSessions == 2       \* Spec: initializeGame runs at most this often per mount
MaxSelects == 2        \* handleOptionSelect is called at most this often per session
MaxSeed == 1           \* Math.random starts a round from one of MaxSeed seeds
MaxDraws == 24         \* and is followed for MaxDraws calls per round
MaxTimerSteps == 1     \* AppSpec: the timer slider takes its first MaxTimerSteps stops
MaxRoundSteps == 1     \* AppSpec: the rounds slider takes its first MaxRoundSteps stops
MaxMatchRoundSteps == 4 \* MatchSpec: the rounds slider takes its first stops (4..10)
MaxPoints == 1         \* MatchSpec: a round completes with 0..MaxPoints points
MaxUrls == 2           \* PreloadSpec: image URLs are 1..MaxUrls
MaxPreloads == 3       \* PreloadSpec: preloadImage is called at most this often
MaxAnswer == 12        \* OptionsSpec: correctAnswer is drawn from 1..MaxAnswer
MaxGenDifficulty == 5  \* OptionsSpec
MaxTwinRoundSteps == 5 \* TwinSpec: stops of the rounds slider
MaxTwinDifficulty == 3 \* TwinSpec: the difficulty slider is moved to 2..MaxTwinDifficulty
MaxCachePreloads == 2  \* CacheSpec: image requests
MaxBatches == 2        \* BatchSpec: calls of preloadImages
MaxBatchUrls == 3      \* BatchSpec: urls of getPreloadUrls: difficulty is drawn from 1..MaxGenDifficulty

(***************************************************************************)
(* Program constants.                                                      *)
(***************************************************************************)
LevelCap == 10             \* player.level < 10 in checkForLevelUp
TimerSliderMin == 5
TimerSliderMax == 60
TimerSliderStep == 5
RoundsSliderMin == 4
RoundsSliderMax == 20
RoundsSliderStep == 2
DifficultySliderMax == 5

Games == {"opposites", "multiplication", "animals", "wordmath"}
MathGames == {"multiplication", "wordmath"}

None == <<>>               \* null
Some(v) == <<v>>
Min(a, b) == IF a <= b THEN a ELSE b
Max(a, b) == IF a >= b THEN a ELSE b

(***************************************************************************)
(* JavaScript numbers.  A non-negative double is m * 2^e with m a bit      *)
(* string (least significant bit first, no leading zero) of at most 53     *)
(* bits.  The scoring expression multiplies a double by a small integer    *)
(* twice and takes Math.floor, so that is what is modelled: the exact      *)
(* product, rounded to nearest, ties to even.                              *)
(***************************************************************************)
RECURSIVE NatBits(_)
NatBits(n) == IF n = 0 THEN <<>> ELSE <<n % 2>> \o NatBits(n \div 2)

RECURSIVE BitsNat(_)
BitsNat(b) == IF b = <<>> THEN 0 ELSE Head(b) + 2 * BitsNat(Tail(b))

RECURSIVE MulBits(_, _, _)
MulBits(b, n, carry) ==
    IF b = <<>> THEN NatBits(carry)
    ELSE LET v == Head(b) * n + carry
         IN  <<v % 2>> \o MulBits(Tail(b), n, v \div 2)

RECURSIVE StripBits(_)
StripBits(b) ==
    IF b = <<>> THEN <<>>
    ELSE IF b[Len(b)] = 0 THEN StripBits(SubSeq(b, 1, Len(b) - 1)) ELSE b

RECURSIVE IncBits(_)
IncBits(b) ==
    IF b = <<>> THEN <<1>>
    ELSE IF Head(b) = 0 THEN <<1>> \o Tail(b) ELSE <<0>> \o IncBits(Tail(b))

\* Round an exact significand to the 53 bits of a double: nearest, ties to even.
RoundToDouble(b) ==
    LET extra == Len(b) - 53
    IN  IF extra <= 0 THEN [m |-> b, e |-> 0]
        ELSE LET kept   == SubSeq(b, extra + 1, Len(b))
                 half   == b[extra] = 1
                 sticky == \E i \in 1..(extra - 1) : b[i] = 1
                 up     == half /\ (sticky \/ kept[1] = 1)
             IN  [m |-> IF up THEN StripBits(IncBits(kept)) ELSE kept, e |-> extra]

\* n * x for a small integer n and a double x, as one rounded multiplication.
Times(n, x) ==
    LET r == RoundToDouble(StripBits(MulBits(x.m, n, 0)))
    IN  [m |-> r.m, e |-> x.e + r.e]

\* Math.floor of a non-negative double.
MathFloor(x) ==
    IF x.e >= 0 THEN BitsNat(x.m) * (2 ^ x.e)
    ELSE IF 0 - x.e >= Len(x.m) THEN 0
    ELSE BitsNat(SubSeq(x.m, 1 - x.e, Len(x.m)))

\* The literal 0.5: exactly 1 * 2^-1.
Half == [m |-> <<1>>, e |-> 0 - 1]

\* The literal 0.3: the nearest double, 0x13333333333333 * 2^-54.
ThreeTenths ==
    [m |-> [i \in 1..53 |->
              IF i = 53 THEN 1 ELSE IF (i - 1) % 4 \in {0, 1} THEN 1 ELSE 0],
     e |-> 0 - 54]

\* The game-specific factor k of the scoring expression.
ScoreFactor(g) == IF g \in MathGames THEN Half ELSE ThreeTenths

\* Variants of the scoring expression: one factor for every game; the time
\* elapsed of the longest countdown instead of the time left.
PointsEarnedOneFactor(g, t, d) == Max(1, MathFloor(Times(t, Times(d, ThreeTenths))))
PointsEarnedElapsed(g, t, d) ==
    Max(1, MathFloor(Times(TimerSliderMax - t, Times(d, ScoreFactor(g)))))

\* Math.max(1, Math.floor(timeLeft * (difficulty * k)))
PointsEarned(g, t, d) == Max(1, MathFloor(Times(t, Times(d, ScoreFactor(g)))))


(***************************************************************************)
(* Math.random.  The engine's generator is deterministic from its seed;    *)
(* the model runs a small full-period congruential generator over 0..31    *)
(* from each of MaxSeed seeds, and reads a draw u as the number u / 32.    *)
(***************************************************************************)
NextRandom(u) == (5 * u + 3) % 32

\* Every value a call of Math.random() can return.
Draws == 0..31

\* The first n values Math.random() returns, starting from u.
RECURSIVE RandomStream(_, _)
RandomStream(u, n) ==
    IF n = 0 THEN <<>> ELSE <<u>> \o RandomStream(NextRandom(u), n - 1)

\* Math.floor(Math.random() * n), for the draw u
RandomInt(u, n) == (u * n) \div 32

Range(xs) == { xs[i] : i \in DOMAIN xs }

\* xs.sort(() => Math.random() - 0.5): a permutation of xs.  The model takes
\* the rotations of xs, one per draw.
Shuffle(xs, u) ==
    LET n == Len(xs)
        k == RandomInt(u, n)
    IN  [i \in 1..n |-> xs[((i - 1 + k) % n) + 1]]

(***************************************************************************)
(* Problem and option generation; rnd is the sequence of values that the   *)
(* successive Math.random() calls return.                                  *)
(***************************************************************************)
animals ==
    << "dog", "cat", "elephant", "lion", "giraffe", "monkey", "zebra", "bear",
       "tiger", "panda", "penguin", "fox", "koala", "kangaroo", "hippo" >>

\* oppositesPairs, as <<word, opposite>>
oppositesPairs ==
    << <<"big", "small">>, <<"hot", "cold">>, <<"up", "down">>, <<"fast", "slow">>,
       <<"day", "night">>, <<"happy", "sad">>, <<"old", "new">>, <<"clean", "dirty">>,
       <<"open", "closed">>, <<"on", "off">>, <<"high", "low">>, <<"wet", "dry">>,
       <<"light", "heavy">>, <<"empty", "full">>, <<"awake", "asleep">> >>

\* animals.slice(0, Math.min(5 + difficulty * 2, animals.length))
getAnimalsForDifficultyNoBase(d) == SubSeq(animals, 1, Min(d * 2, Len(animals)))

getAnimalsForDifficulty(d) == SubSeq(animals, 1, Min(5 + d * 2, Len(animals)))

\* oppositesPairs.slice(0, endIndex)
getPairsForDifficulty(d) ==
    LET startIndex == Min((d - 1) * 3, Len(oppositesPairs) - 5)
        endIndex   == Min(startIndex + 10, Len(oppositesPairs))
    IN  SubSeq(oppositesPairs, 1, endIndex)

\* generateProblem: two operands in 1..maxNum and their product.  key tells
\* the returned object from the one it replaces (a fresh object is never
\* identical to an earlier one).
\* Variant: operands drawn from 0..maxNum - 1.
generateProblemFromZero(d, rnd, key) ==
    LET maxNum == Min(10, 3 + d)
        num1   == RandomInt(rnd[1], maxNum)
        num2   == RandomInt(rnd[2], maxNum)
    IN  [num1 |-> num1, num2 |-> num2, answer |-> num1 * num2, key |-> key]

generateProblem(d, rnd, key) ==
    LET maxNum == Min(10, 3 + d)
        num1   == RandomInt(rnd[1], maxNum) + 1
        num2   == RandomInt(rnd[2], maxNum) + 1
    IN  [num1 |-> num1, num2 |-> num2, answer |-> num1 * num2, key |-> key]

\* generateWordProblem: the same, and one of the five story templates.
generateWordProblem(d, rnd, key) ==
    LET maxNum == Min(10, 3 + d)
        num1   == RandomInt(rnd[1], maxNum) + 1
        num2   == RandomInt(rnd[2], maxNum) + 1
    IN  [num1 |-> num1, num2 |-> num2, answer |-> num1 * num2, key |-> key,
         template |-> RandomInt(rnd[3], 5)]

\* One pass of while (options.length < 4) { ... }, for the two values u1, u2
\* that Math.random() returns in it: an offset and a sign, and
\* correctAnswer + offset * sign is pushed unless it is <= 0 or a duplicate.
OptionsPassDuplicates(options, correctAnswer, d, u1, u2) ==
    LET offset      == RandomInt(u1, 7 - Min(d, 5)) + 1
        sign        == IF 2 * u2 > 32 THEN 1 ELSE 0 - 1
        wrongAnswer == correctAnswer + offset * sign
    IN  IF wrongAnswer > 0 THEN Append(options, wrongAnswer) ELSE options

\* Variant: a pass whose offset does not narrow with the difficulty.
OptionsPassWideOffset(options, correctAnswer, d, u1, u2) ==
    LET offset      == RandomInt(u1, 7) + 1
        sign        == IF 2 * u2 > 32 THEN 1 ELSE 0 - 1
        wrongAnswer == correctAnswer + offset * sign
    IN  IF wrongAnswer > 0 /\ wrongAnswer \notin Range(options)
        THEN Append(options, wrongAnswer)
        ELSE options

OptionsPass(options, correctAnswer, d, u1, u2) ==
    LET offset      == RandomInt(u1, 7 - Min(d, 5)) + 1
        sign        == IF 2 * u2 > 32 THEN 1 ELSE 0 - 1
        wrongAnswer == correctAnswer + offset * sign
    IN  IF wrongAnswer > 0 /\ wrongAnswer \notin Range(options)
        THEN Append(options, wrongAnswer)
        ELSE options

\* The loop, followed for as long as rnd has draws.
RECURSIVE OptionsLoop(_, _, _, _)
OptionsLoop(options, correctAnswer, d, rnd) ==
    IF Len(options) >= 4 \/ Len(rnd) < 2 THEN [options |-> options, rnd |-> rnd]
    ELSE OptionsLoop(OptionsPass(options, correctAnswer, d, rnd[1], rnd[2]),
                     correctAnswer, d, SubSeq(rnd, 3, Len(rnd)))

\* generateOptions: the loop, then the shuffle.  <<>> stands for a call that
\* is still in its loop when rnd runs out.
generateOptions(correctAnswer, d, rnd) ==
    LET r == OptionsLoop(<<correctAnswer>>, correctAnswer, d, rnd)
    IN  IF Len(r.options) < 4 \/ r.rnd = <<>> THEN <<>>
        ELSE Shuffle(r.options, r.rnd[1])

\* xs.filter(x => x !== correctAnswer).sort(() => 0.5 - Math.random()).slice(0, 3)
ThreeOthers(xs, correctAnswer, u) ==
    SubSeq(Shuffle(SelectSeq(xs, LAMBDA x : x # correctAnswer), u), 1, 3)

\* AnimalGame.initializeGame: getRandomAnimal() of the pool and three others;
\* pool is availableAnimals, computed at mount (useRef).
AnimalRound(pool, rnd) ==
    LET newAnimal     == pool[RandomInt(rnd[1], Len(pool)) + 1]
        correctAnswer == newAnimal
        otherAnimals  == ThreeOthers(pool, correctAnswer, rnd[2])
    IN  [problem |-> [name |-> newAnimal, answer |-> correctAnswer],
         options |-> Shuffle(otherAnimals \o <<correctAnswer>>, rnd[3])]

\* OppositesGame.initializeGame: a random pair of the pool and three other
\* opposites; pool is availablePairs, computed at mount (useRef).
OppositesRound(pool, rnd) ==
    LET newPair       == pool[RandomInt(rnd[1], Len(pool)) + 1]
        correctAnswer == newPair[2]
        otherOptions  == ThreeOthers([i \in DOMAIN pool |-> pool[i][2]],
                                     correctAnswer, rnd[2])
    IN  [problem |-> [word |-> newPair[1], opposite |-> newPair[2],
                      answer |-> correctAnswer],
         options |-> Shuffle(otherOptions \o <<correctAnswer>>, rnd[3])]

\* MultiplicationGame.initializeGame: a problem and its options.
MultiplicationRound(d, rnd, key) ==
    LET newProblem == generateProblem(d, rnd, key)
    IN  [problem |-> newProblem,
         options |-> generateOptions(newProblem.answer, d, SubSeq(rnd, 3, Len(rnd)))]

\* WordMathGame.initializeGame: a word problem and its options.
WordMathRound(d, rnd, key) ==
    LET newProblem == generateWordProblem(d, rnd, key)
    IN  [problem |-> newProblem,
         options |-> generateOptions(newProblem.answer, d, SubSeq(rnd, 4, Len(rnd)))]


(***************************************************************************)
(* State.                                                                  *)
(***************************************************************************)
VARIABLES
    \* App (useState of part_000)
    gameState, currentPlayerIndex, players, roundsPlayed, gameSettings,
    showLevelUp,
    \* the mounted game component and its props; game = "none": none mounted.
    \* inst tells the instance from an earlier one that left timers behind, and
    \* onComplete is the identity of the function passed as that prop
    game, inst, difficulty, timerDuration, onComplete,
    \* useState of the game component (problem is currentAnimal / currentPair
    \* in AnimalGame / OppositesGame)
    gameInitialized, problem, options, selectedOption, isCorrect, timeLeft,
    score, isTransitioning, imageLoaded, imageError,
    \* useRef of the game component; poolDifficulty is the difficulty that
    \* useRef(getAnimalsForDifficulty(difficulty)).current was computed for
    timerRef, completionRef, mountedRef, poolDifficulty,
    \* React: the state and props of the last render (what closures see), which
    \* effects returned a cleanup, the effects the commit has still to run, and
    \* the pending window.setTimeout callbacks with what they closed over
    rendered, cleanup, pendingEffects, timers,
    \* observation: rounds initialised since mount, onComplete invocations of
    \* the live session, the last invocation, whether onComplete ever ran for
    \* a session that had ended, handleOptionSelect calls of the live session,
    \* the kinds of the timers that the last unmount cleared
    session, completions, lastCall, lateCalls, selectCalls, cancelled,
    \* ScoreSpec: one evaluation of the scoring expression
    award,
    \* OptionsSpec: one call of generateOptions, pass by pass
    optionsCall,
    \* the image preloaders: the module-level caches of useImagePreloader.ts
    \* ("hook") and of AnimalGame.tsx ("game"), the loadedImages and
    \* failedImages state of the hook, and the calls of preloadImage so far,
    \* each with its image request, its timeout and its promise
    imageCache, loadedImages, failedImages, preloads,
    \* the error boundaries: hasError of the ErrorBoundary the App wraps its
    \* views in ("app") and of the one GamesContainer wraps the game in
    \* ("game"), and the error state of GamesContainer
    hasError, error,
    \* ProblemSpec: one call of generateProblem or generateWordProblem
    problemCall,
    twin,                  \* TwinSpec: the state of two Apps, a and b
    \* the App's isDarkMode and error state
    isDarkMode, appError,
    \* the hook in GamesContainer: its loading state and the calls of
    \* preloadImages so far
    loading, batches

appVars   == <<gameState, currentPlayerIndex, players, roundsPlayed, gameSettings,
               showLevelUp>>
propVars  == <<game, inst, difficulty, timerDuration, onComplete>>
imageVars == <<imageLoaded, imageError>>
stateVars == <<gameInitialized, problem, options, selectedOption, isCorrect, timeLeft,
               score, isTransitioning, imageVars>>
refVars   == <<timerRef, completionRef, mountedRef, poolDifficulty>>
reactVars == <<rendered, cleanup, pendingEffects, timers>>
histVars  == <<session, completions, lastCall, lateCalls, selectCalls, cancelled>>
preloadVars == <<imageCache, loadedImages, failedImages, preloads>>
boundaryVars == <<hasError, error>>
themeVars == <<isDarkMode, appError>>
batchVars == <<loading, batches>>
unitVars  == <<award, optionsCall, preloadVars, boundaryVars, problemCall, twin,
               themeVars, batchVars>>
\* unitVars without the error state of the App
resetVars == <<award, optionsCall, preloadVars, boundaryVars, problemCall, twin,
               isDarkMode, batchVars>>
vars == <<appVars, propVars, stateVars, refVars, reactVars, histVars, unitVars>>

\* What a render closes over: the component's state and props.
StateRec ==
    [gameInitialized |-> gameInitialized, problem |-> problem, options |-> options,
     selectedOption |-> selectedOption, isCorrect |-> isCorrect, timeLeft |-> timeLeft,
     score |-> score, isTransitioning |-> isTransitioning,
     imageLoaded |-> imageLoaded, imageError |-> imageError,
     difficulty |-> difficulty, timerDuration |-> timerDuration,
     onComplete |-> onComplete]

\* The useState initial values, for props (d, T, oc).
InitialState(d, T, oc) ==
    [gameInitialized |-> FALSE, problem |-> None, options |-> <<>>,
     selectedOption |-> None, isCorrect |-> None, timeLeft |-> T,
     score |-> 0, isTransitioning |-> FALSE,
     imageLoaded |-> FALSE, imageError |-> FALSE,
     difficulty |-> d, timerDuration |-> T, onComplete |-> oc]

\* Every state update has been rendered and its effects have run.  React
\* commits a pending render and flushes its effects before the next event.
Quiet == pendingEffects = <<>> /\ rendered = StateRec

Answer == problem[1].answer

(***************************************************************************)
(* window.setTimeout / window.clearTimeout.                                *)
(***************************************************************************)
\* Variant: a clearTimeout that clears nothing.
ClearTimeoutNothing(ts, ref) == ts

\* if (ref.current) window.clearTimeout(ref.current)
ClearTimeout(ts, ref) == { tm \in ts : Some(tm.id) # ref }

\* The id window.setTimeout returns: one no pending timer has and no ref holds.
NewId(ts) ==
    CHOOSE i \in 1..(Cardinality(ts) + 3) :
        /\ i \notin { tm.id : tm \in ts }
        /\ Some(i) \notin {timerRef, completionRef}

Timer(id, kind, points, correct, left) ==
    [id |-> id, kind |-> kind, inst |-> inst, session |-> session,
     points |-> points, correct |-> correct, timeLeft |-> left]

\* mountedRef.current, as the callback of timer tm reads it: the ref of the
\* component instance that scheduled tm.
Mounted(tm) == tm.inst = inst /\ mountedRef

(***************************************************************************)
(* Dependency arrays of the three effects.                                 *)
(***************************************************************************)
\* [initializeGame], which useCallback renews on [difficulty, timerDuration]
\* (MultiplicationGame, WordMathGame) or on [timerDuration] alone (AnimalGame
\* and OppositesGame, whose pools come from a useRef).
MountDeps(r) ==
    IF game \in MathGames THEN <<r.difficulty, r.timerDuration>> ELSE <<r.timerDuration>>

\* Variant: a countdown effect that does not depend on the lock.
TimerDepsWithoutLock(r) == <<r.timeLeft, r.gameInitialized, r.problem>>

TimerDeps(r) ==
    <<r.timeLeft, r.selectedOption, r.gameInitialized, r.isTransitioning, r.problem>>

TimeoutDeps(r) ==
    <<r.timeLeft, r.selectedOption, r.problem, r.onComplete, r.score, r.isTransitioning>>

(***************************************************************************)
(* Cleanup functions of the effects.                                       *)
(***************************************************************************)
\* Variant: a mount effect that returns no cleanup.
MountEffectCleanupForgotten(ts) == [mountedRef |-> mountedRef, timers |-> ts]

\* Variant: a mount effect whose cleanup leaves the completion timer.
MountEffectCleanupTickOnly(ts) ==
    [mountedRef |-> FALSE, timers |-> ClearTimeout(ts, timerRef)]

\* mount/unmount effect: mountedRef.current = false and both timers cleared
MountEffectCleanup(ts) ==
    [mountedRef |-> FALSE,
     timers     |-> ClearTimeout(ClearTimeout(ts, timerRef), completionRef)]

\* Variant: a countdown cleanup that clears the completion timer as well.
TimerEffectCleanupBoth(ts) == ClearTimeout(ClearTimeout(ts, timerRef), completionRef)

\* countdown effect
TimerEffectCleanup(ts) == ClearTimeout(ts, timerRef)

\* timeout effect
TimeoutEffectCleanup(ts) == ClearTimeout(ts, completionRef)

(***************************************************************************)
(* Mounting and unmounting a game component.                               *)
(***************************************************************************)
\* The first render of a new instance: useState and useRef initial values;
\* all three effects are to run.  The instance gets a number of its own when
\* timers of an earlier instance are pending.
MountComponent(g, d, T) ==
    /\ game' = g /\ inst' = IF timers = {} THEN inst ELSE 1 - inst
    /\ difficulty' = d /\ timerDuration' = T /\ onComplete' = 0
    /\ gameInitialized' = FALSE /\ problem' = None /\ options' = <<>>
    /\ selectedOption' = None /\ isCorrect' = None /\ timeLeft' = T
    /\ score' = 0 /\ isTransitioning' = FALSE
    /\ imageLoaded' = FALSE /\ imageError' = FALSE
    /\ timerRef' = None /\ completionRef' = None /\ mountedRef' = TRUE
    /\ poolDifficulty' = d
    /\ rendered' = InitialState(d, T, 0)
    /\ cleanup' = [timer |-> FALSE, timeout |-> FALSE]
    /\ pendingEffects' = <<"mount", "timer", "timeout">>
    /\ UNCHANGED timers
    /\ session' = 0 /\ completions' = 0 /\ lastCall' = None /\ selectCalls' = 0
    /\ cancelled' = {}
    /\ UNCHANGED lateCalls

\* The instance leaves the tree, ts being the pending timers: React runs the
\* cleanup of every effect that returned one and drops the instance's state.
UnmountComponent(ts) ==
    LET t1 == IF cleanup.timer THEN TimerEffectCleanup(ts) ELSE ts
        t2 == IF cleanup.timeout THEN TimeoutEffectCleanup(t1) ELSE t1
        c  == MountEffectCleanup(t2)
    IN  /\ game' = "none" /\ UNCHANGED inst
        /\ difficulty' = 0 /\ timerDuration' = 0 /\ onComplete' = 0
        /\ gameInitialized' = FALSE /\ problem' = None /\ options' = <<>>
        /\ selectedOption' = None /\ isCorrect' = None /\ timeLeft' = 0
        /\ score' = 0 /\ isTransitioning' = FALSE
        /\ imageLoaded' = FALSE /\ imageError' = FALSE
        /\ timerRef' = None /\ completionRef' = None /\ mountedRef' = c.mountedRef
        /\ poolDifficulty' = 0
        /\ rendered' = InitialState(0, 0, 0)
        /\ cleanup' = [timer |-> FALSE, timeout |-> FALSE]
        /\ pendingEffects' = <<>>
        /\ timers' = c.timers
        /\ session' = 0 /\ completions' = 0 /\ lastCall' = None /\ selectCalls' = 0
        /\ cancelled' = { tm.kind : tm \in ts \ c.timers }
        /\ UNCHANGED lateCalls

(***************************************************************************)
(* Render and effects of the mounted component.                            *)
(***************************************************************************)
\* A render with changed state or props, and the cleanups of the effects
\* whose dependencies changed; their bodies run next, in declaration order.
Render ==
    /\ game # "none" /\ pendingEffects = <<>> /\ rendered # StateRec
    /\ LET r          == StateRec
           runMount   == MountDeps(r) # MountDeps(rendered)
           runTimer   == TimerDeps(r) # TimerDeps(rendered)
           runTimeout == TimeoutDeps(r) # TimeoutDeps(rendered)
           c          == IF runMount THEN MountEffectCleanup(timers)
                         ELSE [mountedRef |-> mountedRef, timers |-> timers]
           t1         == IF runTimer /\ cleanup.timer
                         THEN TimerEffectCleanup(c.timers) ELSE c.timers
           t2         == IF runTimeout /\ cleanup.timeout
                         THEN TimeoutEffectCleanup(t1) ELSE t1
       IN  /\ rendered' = r
           /\ mountedRef' = c.mountedRef
           /\ timers' = t2
           /\ cleanup' = [timer   |-> cleanup.timer /\ ~runTimer,
                          timeout |-> cleanup.timeout /\ ~runTimeout]
           /\ pendingEffects' =
                  (IF runMount THEN <<"mount">> ELSE <<>>) \o
                  (IF runTimer THEN <<"timer">> ELSE <<>>) \o
                  (IF runTimeout THEN <<"timeout">> ELSE <<>>)
    /\ UNCHANGED <<appVars, propVars, stateVars, timerRef, completionRef,
                   poolDifficulty, histVars, unitVars>>

\* The round initializeGame sets up when Math.random starts from the seed-th
\* of the seeds 11, 22, 1, 12, ...  The
\* math games read difficulty from the props of the render; the others use
\* the pool of the mount.
Round(seed) ==
    LET rnd == RandomStream((11 * seed) % 32, MaxDraws)
        key == IF problem = None THEN 0 ELSE 1 - problem[1].key
    IN  IF game = "multiplication"
        THEN MultiplicationRound(rendered.difficulty, rnd, key)
        ELSE IF game = "wordmath"
        THEN WordMathRound(rendered.difficulty, rnd, key)
        ELSE IF game = "animals"
        THEN AnimalRound(getAnimalsForDifficulty(poolDifficulty), rnd)
        ELSE OppositesRound(getPairsForDifficulty(poolDifficulty), rnd)

\* Variant: an initializeGame that leaves isCorrect as it is.
InitializeGameKeepsIsCorrect ==
    \E seed \in 1..MaxSeed :
        LET round == Round(seed)
        IN  /\ round.options # <<>>
            /\ problem' = Some(round.problem)
            /\ options' = round.options
            /\ selectedOption' = None
            /\ timeLeft' = rendered.timerDuration
            /\ imageLoaded' = FALSE /\ imageError' = FALSE
            /\ isTransitioning' = FALSE
            /\ gameInitialized' = TRUE
            /\ UNCHANGED <<score, isCorrect>>
            /\ session' = session + 1 /\ completions' = 0 /\ selectCalls' = 0
            /\ lastCall' = None
            /\ UNCHANGED <<lateCalls, cancelled>>

\* Variant: an initializeGame that starts every round from score 0.
InitializeGameResetsScore ==
    \E seed \in 1..MaxSeed :
        LET round == Round(seed)
        IN  /\ round.options # <<>>
            /\ problem' = Some(round.problem)
            /\ options' = round.options
            /\ selectedOption' = None
            /\ isCorrect' = None
            /\ timeLeft' = rendered.timerDuration
            /\ imageLoaded' = FALSE /\ imageError' = FALSE
            /\ isTransitioning' = FALSE
            /\ gameInitialized' = TRUE
            /\ score' = 0
            /\ session' = session + 1 /\ completions' = 0 /\ selectCalls' = 0
            /\ lastCall' = None
            /\ UNCHANGED <<lateCalls, cancelled>>

\* initializeGame, called with mountedRef.current = true.  score is not
\* among the state it sets.
InitializeGame ==
    \E seed \in 1..MaxSeed :
        LET round == Round(seed)
        IN  /\ round.options # <<>>
            /\ problem' = Some(round.problem)
            /\ options' = round.options
            /\ selectedOption' = None
            /\ isCorrect' = None
            /\ timeLeft' = rendered.timerDuration
            /\ imageLoaded' = FALSE /\ imageError' = FALSE
            /\ isTransitioning' = FALSE
            /\ gameInitialized' = TRUE
            /\ UNCHANGED score
            /\ session' = session + 1 /\ completions' = 0 /\ selectCalls' = 0
            /\ lastCall' = None
            /\ UNCHANGED <<lateCalls, cancelled>>

\* useEffect(() => { mountedRef.current = true; initializeGame(); ... },
\*           [initializeGame])
MountEffect ==
    /\ pendingEffects # <<>> /\ Head(pendingEffects) = "mount"
    /\ pendingEffects' = Tail(pendingEffects)
    /\ mountedRef' = TRUE
    /\ InitializeGame
    /\ UNCHANGED <<appVars, propVars, timerRef, completionRef, poolDifficulty,
                   rendered, cleanup, timers, unitVars>>

\* setOptions([...]) of the catch branch of initializeGame.
FallbackOptions(g) ==
    IF g = "multiplication" THEN <<4, 6, 8, 10>>
    ELSE IF g = "wordmath" THEN <<6, 8, 10, 12>>
    ELSE IF g = "animals" THEN <<"dog", "cat", "elephant", "lion">>
    ELSE <<"small", "cold", "down", "slow">>

\* Where the try block of initializeGame can be left by a throw: in the
\* generation of the problem, before any state is set, or, in the math games,
\* in generateOptions, which is called after setProblem(newProblem).
ThrowSites(g) == IF g \in MathGames THEN {"problem", "options"} ELSE {"problem"}

\* initializeGame when its try block throws at the given place: the setters
\* called before the throw, then the catch branch (mountedRef.current is
\* true).
InitializeGameCatch(at) ==
    /\ at \in ThrowSites(game)
    /\ IF at = "options"
       THEN \E seed \in 1..MaxSeed : problem' = Some(Round(seed).problem)
       ELSE UNCHANGED problem
    /\ options' = FallbackOptions(game)
    /\ imageError' = TRUE
    /\ gameInitialized' = TRUE
    /\ UNCHANGED <<selectedOption, isCorrect, timeLeft, isTransitioning, score,
                   imageLoaded>>
    /\ session' = session + 1 /\ completions' = 0 /\ selectCalls' = 0
    /\ lastCall' = None
    /\ UNCHANGED <<lateCalls, cancelled>>

\* The mount effect when initializeGame takes its catch branch.
MountEffectThrows(at) ==
    /\ pendingEffects # <<>> /\ Head(pendingEffects) = "mount"
    /\ pendingEffects' = Tail(pendingEffects)
    /\ mountedRef' = TRUE
    /\ InitializeGameCatch(at)
    /\ UNCHANGED <<appVars, propVars, timerRef, completionRef, poolDifficulty,
                   rendered, cleanup, timers, unitVars>>

\* The countdown effect returns before scheduling a tick.  OppositesGame
\* has no timeLeft test here; its tick callback tests timeLeft > 0 instead.
TimerEffectReturns(r) ==
    \/ ~r.gameInitialized
    \/ (game # "opposites" /\ r.timeLeft <= 0)
    \/ r.selectedOption # None
    \/ r.isTransitioning
    \/ r.problem = None

\* The countdown effect: one 1000 ms timeout per render that changed its
\* dependencies.
TimerEffect ==
    /\ pendingEffects # <<>> /\ Head(pendingEffects) = "timer"
    /\ pendingEffects' = Tail(pendingEffects)
    /\ IF TimerEffectReturns(rendered)
       THEN UNCHANGED <<timers, timerRef, cleanup>>
       ELSE LET ts == ClearTimeout(timers, timerRef)
                id == NewId(ts)
            IN  /\ timers' = ts \cup {Timer(id, "tick", 0, FALSE, rendered.timeLeft)}
                /\ timerRef' = Some(id)
                /\ cleanup' = [cleanup EXCEPT !.timer = TRUE]
    /\ UNCHANGED <<appVars, propVars, stateVars, completionRef, mountedRef,
                   poolDifficulty, rendered, histVars, unitVars>>

\* Variant: a timeout effect that still returns when timeLeft is 0.
TimeoutEffectReturnsAtZero(r) ==
    \/ ~mountedRef
    \/ r.problem = None
    \/ r.timeLeft >= 0
    \/ r.selectedOption # None
    \/ r.isTransitioning

\* The timeout effect returns before locking the round.
TimeoutEffectReturns(r) ==
    \/ ~mountedRef
    \/ r.problem = None
    \/ r.timeLeft > 0
    \/ r.selectedOption # None
    \/ r.isTransitioning

\* The timeout effect: time is up, show the correct answer and schedule
\* onComplete(score, false) after 3000 ms; it returns a cleanup that clears
\* completionRef.current.
TimeoutEffect ==
    /\ pendingEffects # <<>> /\ Head(pendingEffects) = "timeout"
    /\ pendingEffects' = Tail(pendingEffects)
    /\ IF TimeoutEffectReturns(rendered)
       THEN UNCHANGED <<selectedOption, isCorrect, isTransitioning, timers,
                        completionRef, cleanup>>
       ELSE LET ts == ClearTimeout(timers, completionRef)
                id == NewId(ts)
            IN  /\ selectedOption' = Some(rendered.problem[1].answer)
                /\ isCorrect' = Some(FALSE)
                /\ isTransitioning' = TRUE
                /\ timers' = ts \cup {Timer(id, "completion", rendered.score, FALSE, 0)}
                /\ completionRef' = Some(id)
                /\ cleanup' = [cleanup EXCEPT !.timeout = TRUE]
    /\ UNCHANGED <<appVars, propVars, gameInitialized, problem, options, timeLeft,
                   score, imageVars, timerRef, mountedRef, poolDifficulty, rendered,
                   histVars, unitVars>>


(***************************************************************************)
(* Event handlers and timer callbacks of the mounted component.            *)
(***************************************************************************)
\* handleOptionSelect's first line: prevent multiple selections.
SelectReturns ==
    \/ rendered.selectedOption # None
    \/ ~rendered.gameInitialized
    \/ rendered.isTransitioning
    \/ rendered.problem = None

\* handleOptionSelect(option), returning at once when returns holds.
Select(option, returns) ==
    /\ game # "none" /\ Quiet
    /\ option \in Range(options)
    /\ selectCalls < MaxSelects
    /\ selectCalls' = selectCalls + 1
    /\ IF returns
       THEN UNCHANGED <<isTransitioning, selectedOption, isCorrect, score, timers,
                        completionRef>>
       ELSE LET correct      == option = rendered.problem[1].answer
                pointsEarned == IF correct
                                THEN PointsEarned(game, rendered.timeLeft,
                                                  rendered.difficulty)
                                ELSE 0
                newScore     == IF correct THEN rendered.score + pointsEarned
                                ELSE rendered.score
                ts           == ClearTimeout(timers, completionRef)
                id           == NewId(ts)
            IN  /\ isTransitioning' = TRUE
                /\ selectedOption' = Some(option)
                /\ isCorrect' = Some(correct)
                /\ score' = IF correct THEN newScore ELSE score
                /\ timers' = ts \cup {Timer(id, "completion", newScore, correct, 0)}
                /\ completionRef' = Some(id)
    /\ UNCHANGED <<appVars, propVars, gameInitialized, problem, options, timeLeft,
                   imageVars, timerRef, mountedRef, poolDifficulty, rendered, cleanup,
                   pendingEffects, session, completions, lastCall, lateCalls, cancelled,
                   unitVars>>

\* Variant: handleOptionSelect without its first line.
HandleOptionSelectUnguarded(option) == Select(option, FALSE)

HandleOptionSelect(option) == Select(option, SelectReturns)

\* The countdown callback, 1000 ms after the effect scheduled it:
\* if (mountedRef.current) setTimeLeft(prev => prev - 1), in OppositesGame
\* if (mountedRef.current && timeLeft > 0) with the timeLeft of its render.
TickTimeout(tm) ==
    /\ tm \in timers /\ tm.kind = "tick" /\ Quiet
    /\ timers' = timers \ {tm}
    /\ IF Mounted(tm) /\ (game = "opposites" => tm.timeLeft > 0)
       THEN timeLeft' = timeLeft - 1
       ELSE UNCHANGED timeLeft
    /\ UNCHANGED <<appVars, propVars, gameInitialized, problem, options,
                   selectedOption, isCorrect, score, isTransitioning, imageVars,
                   refVars, rendered, cleanup, pendingEffects, histVars, unitVars>>

\* What the completion callback of tm leaves in the observation variables
\* when it invokes onComplete(tm.points, tm.correct).
Invoked(tm) ==
    [lastCall    |-> Some([points |-> tm.points, correct |-> tm.correct]),
     completions |-> IF game # "none" /\ tm.session = session
                     THEN completions + 1 ELSE completions,
     lateCalls   |-> lateCalls \/ game = "none" \/ tm.session # session]

\* The completion callback, 3000 ms after it was scheduled, under a parent
\* whose onComplete leaves the component as it is:
\* if (mountedRef.current) onComplete(points, correct)
CompletionTimeout(tm) ==
    /\ tm \in timers /\ tm.kind = "completion" /\ Quiet
    /\ timers' = timers \ {tm}
    /\ IF Mounted(tm)
       THEN /\ lastCall' = Invoked(tm).lastCall
            /\ completions' = Invoked(tm).completions
            /\ lateCalls' = Invoked(tm).lateCalls
       ELSE UNCHANGED <<lastCall, completions, lateCalls>>
    /\ UNCHANGED <<appVars, propVars, stateVars, refVars, rendered, cleanup,
                   pendingEffects, session, selectCalls, cancelled, unitVars>>

(***************************************************************************)
(* An arbitrary parent: it mounts one game, re-renders it with the props   *)
(* it likes, and unmounts it.                                              *)
(***************************************************************************)
Mount(g, d, T) ==
    /\ game = "none" /\ Quiet
    /\ MountComponent(g, d, T)
    /\ UNCHANGED <<appVars, unitVars>>

Unmount ==
    /\ game # "none" /\ Quiet
    /\ UnmountComponent(timers)
    /\ UNCHANGED <<appVars, unitVars>>

\* A parent render passing difficulty d, timerDuration T and onComplete oc.
ParentRender(d, T, oc) ==
    /\ game # "none" /\ Quiet
    /\ <<d, T, oc>> # <<difficulty, timerDuration, onComplete>>
    /\ MountDeps([difficulty |-> d, timerDuration |-> T]) # MountDeps(rendered)
           => session < MaxSessions
    /\ difficulty' = d /\ timerDuration' = T /\ onComplete' = oc
    /\ UNCHANGED <<appVars, game, inst, stateVars, refVars, reactVars, histVars, unitVars>>

(***************************************************************************)
(* The App's initial state.                                                *)
(***************************************************************************)
Player(age) == [age |-> age, score |-> 0, level |-> 1, correctAnswers |-> 0]

AppInit ==
    /\ gameState = "selection"
    /\ currentPlayerIndex = 0
    /\ players = [i \in {0, 1} |-> IF i = 0 THEN Player(5) ELSE Player(7)]
    /\ roundsPlayed = 0
    /\ gameSettings = [timerDuration |-> 20, totalRounds |-> 10, difficulty |-> 1]
    /\ showLevelUp = None

NoComponent ==
    /\ game = "none" /\ inst = 0
    /\ difficulty = 0 /\ timerDuration = 0 /\ onComplete = 0
    /\ gameInitialized = FALSE /\ problem = None /\ options = <<>>
    /\ selectedOption = None /\ isCorrect = None /\ timeLeft = 0
    /\ score = 0 /\ isTransitioning = FALSE
    /\ imageLoaded = FALSE /\ imageError = FALSE
    /\ timerRef = None /\ completionRef = None /\ mountedRef = FALSE
    /\ poolDifficulty = 0
    /\ rendered = InitialState(0, 0, 0)
    /\ cleanup = [timer |-> FALSE, timeout |-> FALSE]
    /\ pendingEffects = <<>>
    /\ timers = {}
    /\ session = 0 /\ completions = 0 /\ lastCall = None /\ lateCalls = FALSE
    /\ cancelled = {}
    /\ selectCalls = 0

NoAward == [game |-> "none", difficulty |-> 0, timeLeft |-> 0, later |-> 0,
            points |-> None, pointsLater |-> None]

(***************************************************************************)
(* Spec: one game component under an arbitrary parent.                     *)
(***************************************************************************)
NoOptionsCall == [correctAnswer |-> 0, difficulty |-> 0, options |-> <<>>,
                  returned |-> None]

\* const imageCache = {}, useState({}) twice, and no call of preloadImage yet
NoPreloads ==
    /\ imageCache = [impl \in {"hook", "game", "component"} |-> {}]
    /\ loadedImages = {} /\ failedImages = {}
    /\ preloads = <<>>

NoProblemCall == [generator |-> "none", difficulty |-> 0, returned |-> None]

\* state = { hasError: false, error: null } of both boundaries, and
\* useState<string | null>(null) of GamesContainer
\* The App's useState initial values, as one record.
AppState ==
    [gameState          |-> "selection",
     currentPlayerIndex |-> 0,
     players            |-> [i \in {0, 1} |-> IF i = 0 THEN Player(5) ELSE Player(7)],
     roundsPlayed       |-> 0,
     gameSettings       |-> [timerDuration |-> 20, totalRounds |-> 10, difficulty |-> 1],
     showLevelUp        |-> None]

NoTwin == [a |-> AppState, b |-> AppState]

\* useState(false) and useState<string | null>(null) of the App
NoTheme == isDarkMode = FALSE /\ appError = None

\* useState(false) of the hook, and no call of preloadImages yet
NoBatches == loading = FALSE /\ batches = <<>>

NoError ==
    /\ hasError = [boundary \in {"app", "game"} |-> FALSE]
    /\ error = None

Init ==
    /\ AppInit /\ NoComponent
    /\ award = NoAward /\ optionsCall = NoOptionsCall /\ NoPreloads /\ NoError
    /\ problemCall = NoProblemCall /\ twin = NoTwin /\ NoTheme /\ NoBatches

Next ==
    \/ \E g \in Games, d \in 1..MaxDifficulty, T \in 1..MaxTimer : Mount(g, d, T)
    \/ Unmount
    \/ \E d \in 1..MaxDifficulty, T \in 1..MaxTimer, oc \in {0, 1} : ParentRender(d, T, oc)
    \/ Render
    \/ MountEffect
    \/ TimerEffect
    \/ TimeoutEffect
    \/ \E option \in Range(options) : HandleOptionSelect(option)
    \/ \E tm \in timers : TickTimeout(tm)
    \/ \E tm \in timers : CompletionTimeout(tm)

Spec == Init /\ [][Next]_vars

(***************************************************************************)
(* ThrowSpec: the same, when the generation of a problem or of its options *)
(* may throw inside initializeGame.                                        *)
(***************************************************************************)
ThrowNext ==
    \/ Next
    \/ \E at \in {"problem", "options"} : MountEffectThrows(at)

ThrowSpec == Init /\ [][ThrowNext]_vars

(***************************************************************************)
(* ImageSpec: Spec with the picture of the round loading or failing.  The  *)
(* math games and OppositesGame hear of it from the onLoad and onError of  *)
(* their <img>, which is in the tree while imageError is false and reports *)
(* once; AnimalGame hears of it from the promise of preloadImage, which    *)
(* its current-image effect awaits, and a promise of an earlier round may  *)
(* settle in a later one.                                                  *)
(***************************************************************************)
\* The picture of the rendered round can report.
PictureReports ==
    /\ game # "none" /\ Quiet
    /\ rendered.gameInitialized /\ rendered.problem # None
    /\ game # "animals" => (~rendered.imageLoaded /\ ~rendered.imageError)

\* Variant: a handleImageError that also ends the countdown.
HandleImageErrorStopsClock ==
    /\ PictureReports /\ ~imageError
    /\ IF mountedRef THEN imageError' = TRUE /\ timeLeft' = 0
       ELSE UNCHANGED <<imageError, timeLeft>>
    /\ UNCHANGED <<appVars, propVars, gameInitialized, problem, options,
                   selectedOption, isCorrect, score, isTransitioning,
                   imageLoaded, refVars, reactVars, histVars, unitVars>>

\* handleImageError; in AnimalGame the catch of loadCurrentImage:
\* if (mountedRef.current) setImageError(true)
HandleImageError ==
    /\ PictureReports /\ ~imageError
    /\ IF mountedRef THEN imageError' = TRUE ELSE UNCHANGED imageError
    /\ UNCHANGED <<appVars, propVars, gameInitialized, problem, options,
                   selectedOption, isCorrect, timeLeft, score, isTransitioning,
                   imageLoaded, refVars, reactVars, histVars, unitVars>>

\* handleImageLoad; in AnimalGame the line after await preloadImage(url):
\* if (mountedRef.current) setImageLoaded(true)
HandleImageLoad ==
    /\ PictureReports /\ ~imageLoaded
    /\ IF mountedRef THEN imageLoaded' = TRUE ELSE UNCHANGED imageLoaded
    /\ UNCHANGED <<appVars, propVars, gameInitialized, problem, options,
                   selectedOption, isCorrect, timeLeft, score, isTransitioning,
                   imageError, refVars, reactVars, histVars, unitVars>>

ImageNext ==
    \/ Next
    \/ HandleImageError
    \/ HandleImageLoad

ImageSpec == Init /\ [][ImageNext]_vars

(***************************************************************************)
(* The App (part_000) with GameSelection and GamesContainer.               *)
(***************************************************************************)
\* The stops of a range input: min, min + step, ... up to max, the first n.
SliderStops(min, max, step, n) ==
    { v \in min..max : (v - min) % step = 0 /\ (v - min) \div step < n }

\* The players GameSelection passes to onStart: only their names can be edited.
CustomPlayers == [i \in {0, 1} |-> IF i = 0 THEN Player(5) ELSE Player(7)]

\* The settings GameSelection can pass to onStart.
SettingsChoices ==
    [timerDuration : SliderStops(TimerSliderMin, TimerSliderMax, TimerSliderStep,
                                 MaxTimerSteps),
     totalRounds   : SliderStops(RoundsSliderMin, RoundsSliderMax, RoundsSliderStep,
                                 MaxRoundSteps),
     difficulty    : 1..DifficultySliderMax]

\* selectGameForPlayer: the values setGameState can get, by Math.random.
selectGameForPlayer(player) ==
    IF player.age < 6 THEN {"opposites", "animals"} ELSE {"multiplication", "wordmath"}

\* startGame(customPlayers, settings), and the render that mounts the game
\* GamesContainer shows for the new gameState.  selectGameForPlayer is given
\* customPlayers[currentPlayerIndex] with the index of the current render.
StartGame(customPlayers, settings, g) ==
    /\ gameState = "selection" /\ game = "none" /\ Quiet
    /\ g \in selectGameForPlayer(customPlayers[currentPlayerIndex])
    /\ players' = customPlayers
    /\ gameSettings' = settings
    /\ currentPlayerIndex' = (IF customPlayers[0].age <= customPlayers[1].age THEN 0 ELSE 1)
    /\ gameState' = g
    /\ roundsPlayed' = 0
    /\ UNCHANGED showLevelUp
    /\ MountComponent(g, players'[currentPlayerIndex'].level, settings.timerDuration)
    /\ appError' = None
    /\ UNCHANGED resetVars

\* updatePlayerScore's updater: the current player's score and correctAnswers.
updatePlayerScoreAlwaysCorrect(points, correct) ==
    [players EXCEPT ![currentPlayerIndex] =
        [@ EXCEPT !.score = @ + points, !.correctAnswers = @ + 1]]

\* Variant: the updater applied twice to the player objects it changes in
\* place.
updatePlayerScoreTwice(points, correct) ==
    [players EXCEPT ![currentPlayerIndex] =
        [@ EXCEPT !.score = @ + 2 * points,
                  !.correctAnswers = IF correct THEN @ + 2 ELSE @]]

updatePlayerScore(points, correct) ==
    [players EXCEPT ![currentPlayerIndex] =
        [@ EXCEPT !.score = @ + points,
                  !.correctAnswers = IF correct THEN @ + 1 ELSE @]]

\* checkForLevelUp's test, on the players array it reads.
checkForLevelUp(seen, index) ==
    /\ seen[index].correctAnswers >= seen[index].level * 5
    /\ seen[index].level < LevelCap

\* nextTurn: setCurrentPlayerIndex(prevIndex => (prevIndex === 0 ? 1 : 0))
nextTurnIndexKept(prevIndex) == prevIndex

nextTurnIndex(prevIndex) == IF prevIndex = 0 THEN 1 ELSE 0

\* nextTurn: if (roundsPlayed + 1 >= gameSettings.totalRounds), on the
\* roundsPlayed and gameSettings of the render
nextTurnEndsMatchLate(rounds, settings) == rounds >= settings.totalRounds

nextTurnEndsMatchAfter(rounds, settings) == rounds > settings.totalRounds

nextTurnEndsMatch(rounds, settings) == rounds + 1 >= settings.totalRounds

\* The onComplete the App passes to GamesContainer,
\*   (points, isCorrect) => { updatePlayerScore(points, isCorrect); nextTurn(); }
\* as the App state of the next render; seen is the players array that
\* checkForLevelUp reads.  levelUp tells that checkForLevelUp set showLevelUp
\* and its 3000 ms timeout.
OnComplete(points, correct, seen) ==
    LET updated == updatePlayerScore(points, correct)
        levelUp == correct /\ checkForLevelUp(seen, currentPlayerIndex)
    IN  [players            |-> IF levelUp
                                THEN [updated EXCEPT ![currentPlayerIndex].level = @ + 1]
                                ELSE updated,
         levelUp            |-> levelUp,
         currentPlayerIndex |-> nextTurnIndex(currentPlayerIndex),
         roundsPlayed       |-> roundsPlayed + 1,
         gameState          |-> IF nextTurnEndsMatch(roundsPlayed, gameSettings)
                                THEN "results" ELSE gameState]

\* The completion callback under the App: onComplete is
\* (points, isCorrect) => { updatePlayerScore(points, isCorrect); nextTurn(); }
\* followed by the App's render, which passes the game the next player's
\* level and a new onComplete, or shows the results instead of the game.
\* The updater of updatePlayerScore changes the player objects in place, at
\* once or at the next render, so checkForLevelUp reads either value.
AppCompletionTimeout(tm) ==
    /\ tm \in timers /\ tm.kind = "completion" /\ Quiet
    /\ gameState \in Games
    /\ IF ~Mounted(tm)
       THEN /\ timers' = timers \ {tm}
            /\ UNCHANGED <<appVars, propVars, stateVars, refVars, rendered, cleanup,
                           pendingEffects, histVars>>
       ELSE \E seen \in {players, updatePlayerScore(tm.points, tm.correct)} :
            LET oc      == OnComplete(tm.points, tm.correct, seen)
                left    == timers \ {tm}
                pending == IF oc.levelUp
                           THEN left \cup {Timer(NewId(left), "levelup", 0, FALSE, 0)}
                           ELSE left
                results == oc.gameState = "results"
            IN  /\ players' = oc.players
                /\ showLevelUp' = IF oc.levelUp THEN Some(currentPlayerIndex)
                                   ELSE showLevelUp
                /\ currentPlayerIndex' = oc.currentPlayerIndex
                /\ roundsPlayed' = oc.roundsPlayed
                /\ gameState' = oc.gameState
                /\ UNCHANGED gameSettings
                /\ IF results
                   THEN UnmountComponent(pending)
                   ELSE /\ timers' = pending
                        /\ difficulty' = players'[currentPlayerIndex'].level
                        /\ onComplete' = 1 - onComplete
                        /\ lastCall' = Invoked(tm).lastCall
                        /\ completions' = Invoked(tm).completions
                        /\ lateCalls' = Invoked(tm).lateCalls
                        /\ UNCHANGED <<game, inst, timerDuration, stateVars, refVars,
                                       rendered, cleanup, pendingEffects, session,
                                       selectCalls, cancelled>>
    /\ UNCHANGED unitVars

(***************************************************************************)
(* AppSpec: the game component under the App.                              *)
(***************************************************************************)
AppNext ==
    \/ \E settings \in SettingsChoices, g \in Games : StartGame(CustomPlayers, settings, g)
    \/ Render
    \/ MountEffect
    \/ TimerEffect
    \/ TimeoutEffect
    \/ \E option \in Range(options) : HandleOptionSelect(option)
    \/ \E tm \in timers : TickTimeout(tm)
    \/ \E tm \in timers : AppCompletionTimeout(tm)

AppSpec == Init /\ [][AppNext]_vars

(***************************************************************************)
(* MatchSpec: the App on its own.  The game component GamesContainer shows *)
(* is any component that, while shown, calls the onComplete of the latest  *)
(* render with some points and some isCorrect; the component variables     *)
(* stay as without a component.                                            *)
(***************************************************************************)
\* The settings GameSelection passes to onStart: the App's gameSettings it
\* started from, with the value of the rounds slider.
MatchSettings ==
    { [timerDuration |-> 20, totalRounds |-> n, difficulty |-> 1] :
        n \in SliderStops(RoundsSliderMin, RoundsSliderMax, RoundsSliderStep,
                          MaxMatchRoundSteps) }

\* startGame(customPlayers, settings)
MatchStart(customPlayers, settings, g) ==
    /\ gameState = "selection"
    /\ g \in selectGameForPlayer(customPlayers[currentPlayerIndex])
    /\ players' = customPlayers
    /\ gameSettings' = settings
    /\ currentPlayerIndex' = (IF customPlayers[0].age <= customPlayers[1].age THEN 0 ELSE 1)
    /\ gameState' = g
    /\ roundsPlayed' = 0
    /\ completions' = 0 /\ lastCall' = None
    /\ appError' = None
    /\ UNCHANGED <<showLevelUp, propVars, stateVars, refVars, reactVars, session,
                   lateCalls, selectCalls, cancelled, resetVars>>

\* The game component calls onComplete(points, correct).  A game calls it
\* 3000 ms after the answer was locked, so the 3000 ms timeout of an earlier
\* level-up has fired by then.
RoundComplete(points, correct) ==
    /\ gameState \in Games
    /\ \A tm \in timers : tm.kind # "levelup"
    /\ \E seen \in {players, updatePlayerScore(points, correct)} :
          LET oc == OnComplete(points, correct, seen)
          IN  /\ players' = oc.players
              /\ showLevelUp' = IF oc.levelUp THEN Some(currentPlayerIndex)
                                 ELSE showLevelUp
              /\ timers' = IF oc.levelUp
                            THEN timers \cup {Timer(NewId(timers), "levelup", 0, FALSE, 0)}
                            ELSE timers
              /\ currentPlayerIndex' = oc.currentPlayerIndex
              /\ roundsPlayed' = oc.roundsPlayed
              /\ gameState' = oc.gameState
    /\ lastCall' = Some([points |-> points, correct |-> correct])
    /\ completions' = completions + 1
    /\ UNCHANGED <<gameSettings, propVars, stateVars, refVars, rendered, cleanup,
                   pendingEffects, session, lateCalls, selectCalls, cancelled,
                   unitVars>>

\* setTimeout(() => { setShowLevelUp(null); }, 3000) of checkForLevelUp
LevelUpTimeout(tm) ==
    /\ tm \in timers /\ tm.kind = "levelup"
    /\ timers' = timers \ {tm}
    /\ showLevelUp' = None
    /\ UNCHANGED <<gameState, currentPlayerIndex, players, roundsPlayed, gameSettings,
                   propVars, stateVars, refVars, rendered, cleanup, pendingEffects,
                   histVars, unitVars>>

\* Variant: a resetGame that also puts the settings back.
ResetGameDefaultSettings ==
    /\ gameState = "results"
    /\ players' = [i \in {0, 1} |-> IF i = 0 THEN Player(5) ELSE Player(7)]
    /\ currentPlayerIndex' = 0
    /\ gameState' = "selection"
    /\ roundsPlayed' = 0
    /\ appError' = None
    /\ gameSettings' = [timerDuration |-> 20, totalRounds |-> 10, difficulty |-> 1]
    /\ UNCHANGED <<showLevelUp, propVars, stateVars, refVars, reactVars,
                   histVars, resetVars>>

\* resetGame, from the Play Again button of the results
ResetGame ==
    /\ gameState = "results"
    /\ players' = [i \in {0, 1} |-> IF i = 0 THEN Player(5) ELSE Player(7)]
    /\ currentPlayerIndex' = 0
    /\ gameState' = "selection"
    /\ roundsPlayed' = 0
    /\ appError' = None
    /\ UNCHANGED <<gameSettings, showLevelUp, propVars, stateVars, refVars, reactVars,
                   histVars, resetVars>>

MatchNext ==
    \/ \E settings \in MatchSettings, g \in Games : MatchStart(CustomPlayers, settings, g)
    \/ \E points \in 0..MaxPoints, correct \in BOOLEAN : RoundComplete(points, correct)
    \/ \E tm \in timers : LevelUpTimeout(tm)
    \/ ResetGame

MatchSpec == Init /\ [][MatchNext]_vars

(***************************************************************************)
(* BoundarySpec: the App of MatchSpec with its two error boundaries.  A    *)
(* render of the game may throw, and so may a render of one of the App's   *)
(* views outside the game's boundary; a boundary that has caught shows its *)
(* fallback with the Try Again button in place of its children.            *)
(***************************************************************************)
\* The App renders its views: {this.state.hasError ? fallback : children}
\* of the boundary of the App.
ViewsShown == ~hasError["app"]

\* GamesContainer renders the game: {error ? banner : renderCurrentGame()},
\* and the boundary of renderCurrentGame renders its children.
GameShown ==
    /\ ViewsShown /\ gameState \in Games
    /\ error = None /\ ~hasError["game"]

BoundaryStart(customPlayers, settings, g) ==
    /\ ViewsShown
    /\ MatchStart(customPlayers, settings, g)

BoundaryRoundComplete(points, correct) ==
    /\ GameShown
    /\ RoundComplete(points, correct)

BoundaryPlayAgain ==
    /\ ViewsShown
    /\ ResetGame

\* getDerivedStateFromError of the boundary around the game: a render of the
\* game has thrown.
GameThrows ==
    /\ GameShown
    /\ hasError' = [hasError EXCEPT !["game"] = TRUE]
    /\ UNCHANGED <<appVars, propVars, stateVars, refVars, reactVars, histVars,
                   award, optionsCall, preloadVars, error, problemCall, twin, themeVars, batchVars>>

\* handleReset of the boundary around the game: its onReset is the
\* handleGameError of GamesContainer, which sets the error of GamesContainer.
GameRetry ==
    /\ ViewsShown /\ gameState \in Games /\ error = None
    /\ hasError["game"]
    /\ hasError' = [hasError EXCEPT !["game"] = FALSE]
    /\ error' = Some("There was a problem with the game")
    /\ UNCHANGED <<appVars, propVars, stateVars, refVars, reactVars, histVars,
                   award, optionsCall, preloadVars, problemCall, twin, themeVars, batchVars>>

\* getDerivedStateFromError of the boundary of the App: a render outside the
\* game's boundary has thrown.  The views are unmounted, GamesContainer and
\* the boundary of the game with them.
AppThrows ==
    /\ ViewsShown
    /\ hasError' = [boundary \in {"app", "game"} |-> boundary = "app"]
    /\ error' = None
    /\ UNCHANGED <<appVars, propVars, stateVars, refVars, reactVars, histVars,
                   award, optionsCall, preloadVars, problemCall, twin, themeVars, batchVars>>

\* Variant: a reset by the boundary of the App that leaves
\* currentPlayerIndex as it is.
AppRetryIndexKept ==
    /\ hasError["app"]
    /\ hasError' = [hasError EXCEPT !["app"] = FALSE]
    /\ players' = [i \in {0, 1} |-> IF i = 0 THEN Player(5) ELSE Player(7)]
    /\ gameState' = "selection"
    /\ roundsPlayed' = 0
    /\ appError' = None
    /\ UNCHANGED <<currentPlayerIndex, gameSettings, showLevelUp, propVars, stateVars,
                   refVars, reactVars, histVars, award, optionsCall, preloadVars,
                   error, problemCall, twin, isDarkMode, batchVars>>

\* handleReset of the boundary of the App: its onReset is resetGame.
AppRetry ==
    /\ hasError["app"]
    /\ hasError' = [hasError EXCEPT !["app"] = FALSE]
    /\ players' = [i \in {0, 1} |-> IF i = 0 THEN Player(5) ELSE Player(7)]
    /\ currentPlayerIndex' = 0
    /\ gameState' = "selection"
    /\ roundsPlayed' = 0
    /\ appError' = None
    /\ UNCHANGED <<gameSettings, showLevelUp, propVars, stateVars, refVars, reactVars,
                   histVars, award, optionsCall, preloadVars, error, problemCall, twin,
                   isDarkMode, batchVars>>

BoundaryNext ==
    \/ \E settings \in MatchSettings, g \in Games :
          BoundaryStart(CustomPlayers, settings, g)
    \/ \E points \in 0..MaxPoints, correct \in BOOLEAN :
          BoundaryRoundComplete(points, correct)
    \/ \E tm \in timers : LevelUpTimeout(tm)
    \/ BoundaryPlayAgain
    \/ GameThrows
    \/ GameRetry
    \/ AppThrows
    \/ AppRetry

BoundarySpec == Init /\ [][BoundaryNext]_vars

(***************************************************************************)
(* ResetSpec: BoundarySpec with the theme button of the App's header,      *)
(* which is outside the boundary of the App.                               *)
(***************************************************************************)
\* toggleTheme: setIsDarkMode(!isDarkMode)
ToggleTheme ==
    /\ isDarkMode' = ~isDarkMode
    /\ UNCHANGED <<appVars, propVars, stateVars, refVars, reactVars, histVars, award,
                   optionsCall, preloadVars, boundaryVars, problemCall, twin, appError,
                   batchVars>>

ResetNext ==
    \/ BoundaryNext
    \/ ToggleTheme

ResetSpec == Init /\ [][ResetNext]_vars

(***************************************************************************)
(* ScoreSpec: the scoring expression on its own, for every game, every     *)
(* level a player can have and every timeLeft the timer slider allows.     *)
(***************************************************************************)
ScoreInit ==
    /\ AppInit /\ NoComponent
    /\ award \in { a \in [game : Games, difficulty : 1..LevelCap,
                          timeLeft : 0..TimerSliderMax, later : 0..TimerSliderMax,
                          points : {None}, pointsLater : {None}] :
                     a.timeLeft <= a.later }
    /\ optionsCall = NoOptionsCall /\ NoPreloads /\ NoError
    /\ problemCall = NoProblemCall /\ twin = NoTwin /\ NoTheme /\ NoBatches

\* const pointsEarned = Math.max(1, Math.floor(timeLeft * (difficulty * k)))
\* for a correct answer with timeLeft seconds left, and with later seconds left.
AwardPoints ==
    /\ award.points = None
    /\ award' = [award EXCEPT
                   !.points = Some(PointsEarned(award.game, award.timeLeft,
                                                award.difficulty)),
                   !.pointsLater = Some(PointsEarned(award.game, award.later,
                                                     award.difficulty))]
    /\ UNCHANGED <<appVars, propVars, stateVars, refVars, reactVars, histVars,
                   optionsCall, preloadVars, boundaryVars, problemCall, twin, themeVars, batchVars>>

ScoreNext == AwardPoints

ScoreSpec == ScoreInit /\ [][ScoreNext]_vars

(***************************************************************************)
(* OptionsSpec: one call of generateOptions (MultiplicationGame and        *)
(* WordMathGame have the same function), one pass of its loop per step,    *)
(* with every value Math.random() can return in each pass.                 *)
(***************************************************************************)
\* The answers generateProblem(difficulty) can return.
ProblemAnswers(d) ==
    { generateProblem(d, <<u1, u2>>, 0).answer : u1 \in Draws, u2 \in Draws }

\* let options = [correctAnswer]
OptionsInit ==
    /\ AppInit /\ NoComponent /\ award = NoAward /\ NoPreloads /\ NoError
    /\ problemCall = NoProblemCall /\ twin = NoTwin /\ NoTheme /\ NoBatches
    /\ optionsCall \in { c \in [correctAnswer : 1..MaxAnswer,
                                 difficulty : 1..MaxGenDifficulty,
                                 options : { <<a>> : a \in 1..MaxAnswer },
                                 returned : {None}] :
                           c.options = <<c.correctAnswer>> }

\* One pass of the loop.
LoopPass ==
    /\ optionsCall.returned = None
    /\ Len(optionsCall.options) < 4
    /\ \E u1 \in Draws, u2 \in Draws :
          optionsCall' = [optionsCall EXCEPT
                            !.options = OptionsPass(@, optionsCall.correctAnswer,
                                                    optionsCall.difficulty, u1, u2)]
    /\ UNCHANGED <<appVars, propVars, stateVars, refVars, reactVars, histVars, award,
                   preloadVars, boundaryVars, problemCall, twin, themeVars, batchVars>>

\* The loop's exit: return options.sort(() => Math.random() - 0.5)
ReturnOptions ==
    /\ optionsCall.returned = None
    /\ Len(optionsCall.options) >= 4
    /\ \E u \in Draws :
          optionsCall' = [optionsCall EXCEPT
                            !.returned = Some(Shuffle(optionsCall.options, u))]
    /\ UNCHANGED <<appVars, propVars, stateVars, refVars, reactVars, histVars, award,
                   preloadVars, boundaryVars, problemCall, twin, themeVars, batchVars>>

OptionsNext == LoopPass \/ ReturnOptions

OptionsSpec == OptionsInit /\ [][OptionsNext]_vars

(***************************************************************************)
(* ProblemSpec: one call of generateProblem or of generateWordProblem, for *)
(* every difficulty a player's level can pass and every value of the two   *)
(* or three Math.random() draws.                                           *)
(***************************************************************************)
ProblemInit ==
    /\ AppInit /\ NoComponent /\ award = NoAward /\ optionsCall = NoOptionsCall
    /\ NoPreloads /\ NoError
    /\ problemCall \in [generator : {"generateProblem", "generateWordProblem"},
                        difficulty : 1..MaxGenDifficulty, returned : {None}]
    /\ twin = NoTwin /\ NoTheme /\ NoBatches

\* generateProblem(difficulty)
GenerateProblem ==
    /\ problemCall.generator = "generateProblem" /\ problemCall.returned = None
    /\ \E u1 \in Draws, u2 \in Draws :
          problemCall' = [problemCall EXCEPT
                            !.returned = Some(generateProblem(problemCall.difficulty,
                                                              <<u1, u2>>, 0))]
    /\ UNCHANGED <<appVars, propVars, stateVars, refVars, reactVars, histVars, award,
                   optionsCall, preloadVars, boundaryVars, twin, themeVars, batchVars>>

\* generateWordProblem(difficulty)
GenerateWordProblem ==
    /\ problemCall.generator = "generateWordProblem" /\ problemCall.returned = None
    /\ \E u1 \in Draws, u2 \in Draws, u3 \in Draws :
          problemCall' = [problemCall EXCEPT
                            !.returned = Some(generateWordProblem(problemCall.difficulty,
                                                                  <<u1, u2, u3>>, 0))]
    /\ UNCHANGED <<appVars, propVars, stateVars, refVars, reactVars, histVars, award,
                   optionsCall, preloadVars, boundaryVars, twin, themeVars, batchVars>>

ProblemNext == GenerateProblem \/ GenerateWordProblem

ProblemSpec == ProblemInit /\ [][ProblemNext]_vars

(***************************************************************************)
(* TwinSpec: two Apps, a and b, side by side.  GameSelection starts both   *)
(* with the same players and the same settings, except that in b the       *)
(* difficulty slider was moved.  Both get the same Math.random draws, and  *)
(* their games, being functions of their props, the draws and the clicks,  *)
(* call onComplete with the same arguments as long as they were given the  *)
(* same props.                                                             *)
(***************************************************************************)
\* GameSelection.handleDifficultyChange: setSettings({...settings, difficulty})
handleDifficultyChange(settings, d) == [settings EXCEPT !.difficulty = d]

\* The settings of a: the App's gameSettings with the rounds slider moved.
TwinSettings ==
    { [timerDuration |-> 20, totalRounds |-> n, difficulty |-> 1] :
        n \in SliderStops(RoundsSliderMin, RoundsSliderMax, RoundsSliderStep,
                          MaxTwinRoundSteps) }

\* startGame(customPlayers, settings) on the App state app, setGameState
\* getting g.
startGameOf(app, customPlayers, settings, g) ==
    [app EXCEPT !.players = customPlayers,
                !.gameSettings = settings,
                !.currentPlayerIndex =
                    (IF customPlayers[0].age <= customPlayers[1].age THEN 0 ELSE 1),
                !.gameState = g,
                !.roundsPlayed = 0]

\* (points, isCorrect) => { updatePlayerScore(points, isCorrect); nextTurn(); }
\* on the App state app; eager tells that checkForLevelUp reads the players
\* array after the updater has run.
onCompleteOf(app, points, correct, eager) ==
    LET index   == app.currentPlayerIndex
        updated == [app.players EXCEPT ![index] =
                       [@ EXCEPT !.score = @ + points,
                                 !.correctAnswers = IF correct THEN @ + 1 ELSE @]]
        levelUp == correct /\ checkForLevelUp(IF eager THEN updated ELSE app.players,
                                              index)
    IN  [app EXCEPT !.players = IF levelUp
                                THEN [updated EXCEPT ![index].level = @ + 1]
                                ELSE updated,
                    !.showLevelUp = IF levelUp THEN Some(index) ELSE @,
                    !.currentPlayerIndex = nextTurnIndex(index),
                    !.roundsPlayed = @ + 1,
                    !.gameState = IF nextTurnEndsMatch(app.roundsPlayed, app.gameSettings)
                                  THEN "results" ELSE @]

\* Variant: a GamesContainer that passes the configured difficulty.
renderCurrentGameConfigured(app) ==
    IF app.gameState \in Games
    THEN Some([game          |-> app.gameState,
               timerDuration |-> app.gameSettings.timerDuration,
               difficulty    |-> app.gameSettings.difficulty])
    ELSE None

\* GamesContainer.renderCurrentGame: the game shown for the App state app
\* and the props it is given, player being players[currentPlayerIndex].
renderCurrentGame(app) ==
    IF app.gameState \in Games
    THEN Some([game          |-> app.gameState,
               timerDuration |-> app.gameSettings.timerDuration,
               difficulty    |-> app.players[app.currentPlayerIndex].level])
    ELSE None

TwinStart(settings, d) ==
    /\ twin.a.gameState = "selection" /\ twin.b.gameState = "selection"
    /\ \E ga \in selectGameForPlayer(CustomPlayers[twin.a.currentPlayerIndex]),
          gb \in selectGameForPlayer(CustomPlayers[twin.b.currentPlayerIndex]) :
          /\ twin.a.currentPlayerIndex = twin.b.currentPlayerIndex => ga = gb
          /\ twin' = [a |-> startGameOf(twin.a, CustomPlayers, settings, ga),
                      b |-> startGameOf(twin.b, CustomPlayers,
                                        handleDifficultyChange(settings, d), gb)]
    /\ UNCHANGED <<appVars, propVars, stateVars, refVars, reactVars, histVars, award,
                   optionsCall, preloadVars, boundaryVars, problemCall, themeVars,
                   batchVars>>

\* The games of a and b call onComplete: with the same arguments when they
\* were given the same props.
TwinRoundComplete(pa, ca, pb, cb, eager) ==
    /\ twin.a.gameState \in Games /\ twin.b.gameState \in Games
    /\ twin.a.showLevelUp = None /\ twin.b.showLevelUp = None
    /\ renderCurrentGame(twin.a) = renderCurrentGame(twin.b) => pa = pb /\ ca = cb
    /\ twin' = [a |-> onCompleteOf(twin.a, pa, ca, eager),
                b |-> onCompleteOf(twin.b, pb, cb, eager)]
    /\ UNCHANGED <<appVars, propVars, stateVars, refVars, reactVars, histVars, award,
                   optionsCall, preloadVars, boundaryVars, problemCall, themeVars,
                   batchVars>>

\* setTimeout(() => { setShowLevelUp(null); }, 3000) of checkForLevelUp
TwinLevelUpTimeout ==
    /\ twin.a.showLevelUp # None \/ twin.b.showLevelUp # None
    /\ twin' = [a |-> [twin.a EXCEPT !.showLevelUp = None],
                b |-> [twin.b EXCEPT !.showLevelUp = None]]
    /\ UNCHANGED <<appVars, propVars, stateVars, refVars, reactVars, histVars, award,
                   optionsCall, preloadVars, boundaryVars, problemCall, themeVars,
                   batchVars>>

TwinNext ==
    \/ \E settings \in TwinSettings, d \in 2..MaxTwinDifficulty : TwinStart(settings, d)
    \/ \E pa, pb \in 0..MaxPoints, ca, cb, eager \in BOOLEAN :
          TwinRoundComplete(pa, ca, pb, cb, eager)
    \/ TwinLevelUpTimeout

TwinSpec == Init /\ [][TwinNext]_vars

(***************************************************************************)
(* PreloadSpec: the two image preloaders under arbitrary callers.  A call  *)
(* of preloadImage is a record of its url, its image request (none,        *)
(* loading, loaded, failed), its 10 s timeout (none, pending, cleared,     *)
(* fired) and its promise (pending, resolved, rejected).                   *)
(***************************************************************************)
Urls == 1..MaxUrls

\* preloadImage(url): the call it starts.
preloadImageNoCacheTest(impl, url) ==
    [impl |-> impl, url |-> url, image |-> "loading", timeout |-> "pending",
     promise |-> "pending"]

preloadImageShared(impl, url) ==
    IF \/ url \in imageCache[impl]
       \/ \E i \in DOMAIN preloads :
             /\ preloads[i].impl = impl /\ preloads[i].url = url
             /\ preloads[i].image = "loading"
    THEN [impl |-> impl, url |-> url, image |-> "none", timeout |-> "none",
          promise |-> IF url \in imageCache[impl] THEN "resolved" ELSE "pending"]
    ELSE [impl |-> impl, url |-> url, image |-> "loading", timeout |-> "pending",
          promise |-> "pending"]

preloadImage(impl, url) ==
    IF url \in imageCache[impl]
    THEN [impl |-> impl, url |-> url, image |-> "none", timeout |-> "none",
          promise |-> "resolved"]
    ELSE [impl |-> impl, url |-> url, image |-> "loading", timeout |-> "pending",
          promise |-> "pending"]

\* resolve() / reject(): a settled promise stays as it is.
Settle(promise, outcome) == IF promise = "pending" THEN outcome ELSE promise

PreloadCall(impl, url) ==
    /\ Len(preloads) < MaxPreloads
    /\ preloads' = Append(preloads, preloadImage(impl, url))
    /\ UNCHANGED <<imageCache, loadedImages, failedImages>>
    /\ UNCHANGED <<appVars, propVars, stateVars, refVars, reactVars, histVars, award,
                   optionsCall, boundaryVars, problemCall, twin, themeVars, batchVars>>

\* img.onload of call i.  The hook clears its timeout and records the url in
\* loadedImages; both mark the url in their cache and resolve.
ImageLoad(i) ==
    /\ i \in DOMAIN preloads /\ preloads[i].image = "loading"
    /\ LET c == preloads[i]
       IN  /\ preloads' = [preloads EXCEPT
                  ![i].image = "loaded",
                  ![i].timeout = IF c.impl = "hook" /\ @ = "pending" THEN "cleared" ELSE @,
                  ![i].promise = Settle(@, "resolved")]
           /\ imageCache' = [imageCache EXCEPT ![c.impl] = @ \cup {c.url}]
           /\ loadedImages' = IF c.impl = "hook" THEN loadedImages \cup {c.url}
                               ELSE loadedImages
           /\ UNCHANGED failedImages
    /\ UNCHANGED <<appVars, propVars, stateVars, refVars, reactVars, histVars, award,
                   optionsCall, boundaryVars, problemCall, twin, themeVars, batchVars>>

\* img.onerror of call i.  The hook clears its timeout and records the url
\* in failedImages; both reject.
ImageError(i) ==
    /\ i \in DOMAIN preloads /\ preloads[i].image = "loading"
    /\ LET c == preloads[i]
       IN  /\ preloads' = [preloads EXCEPT
                  ![i].image = "failed",
                  ![i].timeout = IF c.impl = "hook" /\ @ = "pending" THEN "cleared" ELSE @,
                  ![i].promise = Settle(@, "rejected")]
           /\ failedImages' = IF c.impl = "hook" THEN failedImages \cup {c.url}
                               ELSE failedImages
           /\ UNCHANGED <<imageCache, loadedImages>>
    /\ UNCHANGED <<appVars, propVars, stateVars, refVars, reactVars, histVars, award,
                   optionsCall, boundaryVars, problemCall, twin, themeVars, batchVars>>

\* The 10000 ms timeout of call i: the hook rejects; AnimalGame's preloadImage
\* rejects if (!imageCache[url]).
PreloadTimeout(i) ==
    /\ i \in DOMAIN preloads /\ preloads[i].timeout = "pending"
    /\ LET c == preloads[i]
       IN  preloads' = [preloads EXCEPT
              ![i].timeout = "fired",
              ![i].promise = IF c.impl = "hook" \/ c.url \notin imageCache[c.impl]
                             THEN Settle(@, "rejected") ELSE @]
    /\ UNCHANGED <<imageCache, loadedImages, failedImages>>
    /\ UNCHANGED <<appVars, propVars, stateVars, refVars, reactVars, histVars, award,
                   optionsCall, boundaryVars, problemCall, twin, themeVars, batchVars>>

PreloadNext ==
    \/ \E impl \in {"hook", "game"}, url \in Urls : PreloadCall(impl, url)
    \/ \E i \in DOMAIN preloads : ImageLoad(i)
    \/ \E i \in DOMAIN preloads : ImageError(i)
    \/ \E i \in DOMAIN preloads : PreloadTimeout(i)

PreloadSpec == Init /\ [][PreloadNext]_vars

(***************************************************************************)
(* CacheSpec: the image caches of the hook, of AnimalGame and of the       *)
(* ImagePreloader component, the last with the mounted flag of its effect, *)
(* while the boundary of the App unmounts the views and resets the match.  *)
(***************************************************************************)
\* Variant: an ImagePreloader whose onerror marks the url as well.
ImagePreloaderErrorMarks(i) ==
    /\ i \in DOMAIN preloads /\ preloads[i].impl = "component"
    /\ preloads[i].image = "loading"
    /\ preloads' = [preloads EXCEPT ![i].image = "failed"]
    /\ imageCache' = [imageCache EXCEPT !["component"] = @ \cup {preloads[i].url}]
    /\ UNCHANGED <<loadedImages, failedImages>>
    /\ UNCHANGED <<appVars, propVars, stateVars, refVars, reactVars, histVars, award,
                   optionsCall, boundaryVars, problemCall, twin, themeVars, batchVars>>

\* The effect of ImagePreloader, for one of its urls: a cached url is
\* skipped, another gets an Image with the two handlers.
ImagePreloaderEffect(url) ==
    /\ Len(preloads) < MaxCachePreloads
    /\ preloads' = Append(preloads,
          [impl |-> "component", url |-> url,
           image |-> IF url \in imageCache["component"] THEN "none" ELSE "loading",
           timeout |-> "none", promise |-> "none", mounted |-> TRUE])
    /\ UNCHANGED <<imageCache, loadedImages, failedImages>>
    /\ UNCHANGED <<appVars, propVars, stateVars, refVars, reactVars, histVars, award,
                   optionsCall, boundaryVars, problemCall, twin, themeVars, batchVars>>

\* img.onload of ImagePreloader: if (!mounted) return; imageCache[url] = true
ImagePreloaderLoad(i) ==
    /\ i \in DOMAIN preloads /\ preloads[i].impl = "component"
    /\ preloads[i].image = "loading"
    /\ preloads' = [preloads EXCEPT ![i].image = "loaded"]
    /\ imageCache' = IF preloads[i].mounted
                     THEN [imageCache EXCEPT !["component"] = @ \cup {preloads[i].url}]
                     ELSE imageCache
    /\ UNCHANGED <<loadedImages, failedImages>>
    /\ UNCHANGED <<appVars, propVars, stateVars, refVars, reactVars, histVars, award,
                   optionsCall, boundaryVars, problemCall, twin, themeVars, batchVars>>

\* img.onerror of ImagePreloader: if (!mounted) return; onError(url, e)
ImagePreloaderError(i) ==
    /\ i \in DOMAIN preloads /\ preloads[i].impl = "component"
    /\ preloads[i].image = "loading"
    /\ preloads' = [preloads EXCEPT ![i].image = "failed"]
    /\ UNCHANGED <<imageCache, loadedImages, failedImages>>
    /\ UNCHANGED <<appVars, propVars, stateVars, refVars, reactVars, histVars, award,
                   optionsCall, boundaryVars, problemCall, twin, themeVars, batchVars>>

\* The cleanup of the effect of ImagePreloader, at an unmount or before the
\* effect runs again: mounted = false
ImagePreloaderCleanup ==
    /\ \E i \in DOMAIN preloads : preloads[i].impl = "component" /\ preloads[i].mounted
    /\ preloads' = [i \in DOMAIN preloads |->
                       IF preloads[i].impl = "component"
                       THEN [preloads[i] EXCEPT !.mounted = FALSE]
                       ELSE preloads[i]]
    /\ UNCHANGED <<imageCache, loadedImages, failedImages>>
    /\ UNCHANGED <<appVars, propVars, stateVars, refVars, reactVars, histVars, award,
                   optionsCall, boundaryVars, problemCall, twin, themeVars, batchVars>>

CacheNext ==
    \/ \E impl \in {"hook", "game"}, url \in Urls :
          Len(preloads) < MaxCachePreloads /\ PreloadCall(impl, url)
    \/ \E i \in DOMAIN preloads : preloads[i].impl # "component" /\ ImageLoad(i)
    \/ \E i \in DOMAIN preloads : preloads[i].impl # "component" /\ ImageError(i)
    \/ \E i \in DOMAIN preloads : PreloadTimeout(i)
    \/ \E url \in Urls : ImagePreloaderEffect(url)
    \/ \E i \in DOMAIN preloads : ImagePreloaderLoad(i)
    \/ \E i \in DOMAIN preloads : ImagePreloaderError(i)
    \/ ImagePreloaderCleanup
    \/ AppThrows
    \/ AppRetry

CacheSpec == Init /\ [][CacheNext]_vars

(***************************************************************************)
(* BatchSpec: the hook in GamesContainer.  The preload effect calls        *)
(* preloadImages(urls) at the mount and again whenever gameState or        *)
(* preloadImages has changed, and preloadImages is a new function whenever *)
(* failedImages has changed; an earlier call keeps running.  A call is a   *)
(* record of its urls, the position of its loop, the failedImages of the   *)
(* render it was created in, and the call of preloadImage it awaits.       *)
(***************************************************************************)
\* getPreloadUrls(gameState): a list of distinct urls, two for opposites and
\* five for animals; here the first n of them.
UrlLists == { [k \in 1..n |-> k] : n \in 1..MaxBatchUrls }

\* for (const url of urls) { if (imageCache[url] || failedImages[url]) continue;
\* from position pos: the position of the first url that is not passed
\* over, Len(urls) + 1 when there is none.
RECURSIVE NextUrl(_, _, _)
NextUrl(urls, pos, failed) ==
    IF pos > Len(urls) THEN pos
    ELSE IF urls[pos] \in imageCache["hook"] \/ urls[pos] \in failed
         THEN NextUrl(urls, pos + 1, failed)
         ELSE pos

\* The loop of call b from position pos up to its next await, or through
\* the finally block: setLoading(false).
RunLoop(i, b, pos, wasLoading) ==
    LET k == NextUrl(b.urls, pos, b.failedImages)
    IN  IF k > Len(b.urls)
        THEN /\ batches' = [j \in 1..Max(i, Len(batches)) |->
                               IF j = i THEN [b EXCEPT !.pos = k, !.call = 0,
                                                       !.finished = TRUE]
                               ELSE batches[j]]
             /\ loading' = FALSE
             /\ UNCHANGED preloads
        ELSE /\ batches' = [j \in 1..Max(i, Len(batches)) |->
                               IF j = i THEN [b EXCEPT !.pos = k,
                                                       !.call = Len(preloads) + 1]
                               ELSE batches[j]]
             /\ loading' = wasLoading
             /\ preloads' = Append(preloads, preloadImage("hook", b.urls[k]))

\* preloadImages(urls), as far as its first await: setLoading(true), the loop.
PreloadImages(urls) ==
    /\ Len(batches) < MaxBatches
    /\ RunLoop(Len(batches) + 1,
               [urls |-> urls, pos |-> 1, failedImages |-> failedImages, call |-> 0,
                finished |-> FALSE],
               1, TRUE)
    /\ UNCHANGED <<imageCache, loadedImages, failedImages>>
    /\ UNCHANGED <<appVars, propVars, stateVars, refVars, reactVars, histVars, award,
                   optionsCall, boundaryVars, problemCall, twin, themeVars>>

\* await preloadImage(url).catch(...) of call i returns, the promise being
\* resolved or rejected, and the loop goes on.
PreloadImagesResumes(i) ==
    /\ i \in DOMAIN batches /\ ~batches[i].finished
    /\ preloads[batches[i].call].promise # "pending"
    /\ RunLoop(i, batches[i], batches[i].pos + 1, loading)
    /\ UNCHANGED <<imageCache, loadedImages, failedImages>>
    /\ UNCHANGED <<appVars, propVars, stateVars, refVars, reactVars, histVars, award,
                   optionsCall, boundaryVars, problemCall, twin, themeVars>>

\* No call of preloadImages is about to resume: a continuation after await
\* is a microtask, which runs before the next event, timer or effect.
NoMicrotask ==
    \A i \in DOMAIN batches :
       IF batches[i].finished THEN TRUE
       ELSE preloads[batches[i].call].promise = "pending"

\* The preload effect of GamesContainer, deps [gameState, preloadImages]: at
\* the mount, and after a render in which failedImages is not the one of
\* the latest call, with the urls of the same gameState.
PreloadEffect(urls) ==
    /\ NoMicrotask
    /\ \/ batches = <<>>
       \/ /\ batches # <<>>
          /\ urls = batches[1].urls
          /\ failedImages # batches[Len(batches)].failedImages
    /\ PreloadImages(urls)

BatchNext ==
    \/ \E urls \in UrlLists : PreloadEffect(urls)
    \/ \E i \in DOMAIN batches : PreloadImagesResumes(i)
    \/ \E i \in DOMAIN preloads : NoMicrotask /\ ImageLoad(i)
    \/ \E i \in DOMAIN preloads : NoMicrotask /\ ImageError(i)
    \/ \E i \in DOMAIN preloads : NoMicrotask /\ PreloadTimeout(i)

BatchSpec == Init /\ [][BatchNext]_vars

(***************************************************************************)
(* Properties.                                                             *)
(***************************************************************************)
CompletionTimers == { tm \in timers : tm.kind = "completion" }
TickTimers == { tm \in timers : tm.kind = "tick" }

\* The round was locked by handleOptionSelect: isCorrect tells whether the
\* selected option is the answer.
UserLocked ==
    /\ game # "none" /\ selectedOption # None
    /\ isCorrect = Some(selectedOption[1] = Answer)

\* The round was locked by the timeout effect: the answer is shown as the
\* selection, marked incorrect.
TimeoutLocked ==
    /\ game # "none" /\ selectedOption # None
    /\ selectedOption = Some(Answer) /\ isCorrect = Some(FALSE)

\* C1: once selectedOption is set, by a pick or by the timeout, a further
\* handleOptionSelect call leaves selectedOption, isCorrect, score, timeLeft
\* and the pending completion timer as they are.
SelectAfterLockIsNoOp ==
    [][(selectCalls' = selectCalls + 1 /\ selectedOption # None)
         => UNCHANGED <<selectedOption, isCorrect, score, timeLeft, timers,
                        completionRef>>]_vars

\* C1 happens: a second call was made in a round that a correct pick locked.
SelectAfterLockCalled ==
    /\ UserLocked /\ selectCalls = 2
    /\ isCorrect = Some(TRUE) /\ CompletionTimers # {}

\* C2: in a mounted round locked by a selection, either onComplete has not
\* run and exactly one completion timer is pending, which will call it with
\* (score, whether the selection is the answer), or it has run exactly once,
\* with those arguments, and no completion timer is pending.
UserLockCompletesOnce ==
    (UserLocked /\ mountedRef) =>
        \/ /\ completions = 0
           /\ \E tm \in CompletionTimers :
                 /\ CompletionTimers = {tm}
                 /\ Mounted(tm) /\ tm.session = session
                 /\ tm.points = score
                 /\ tm.correct = (selectedOption[1] = Answer)
        \/ /\ completions = 1
           /\ CompletionTimers = {}
           /\ lastCall = Some([points  |-> score,
                               correct |-> (selectedOption[1] = Answer)])

\* C2 happens: onComplete has run for a round locked by a correct selection.
UserLockCompleted ==
    UserLocked /\ mountedRef /\ completions = 1 /\ isCorrect = Some(TRUE)

\* C3: in a mounted round locked by the timeout, once the lock is rendered
\* either the completion timer the timeout step scheduled is still pending,
\* or onComplete has run once, with wasCorrect = false.
TimeoutLockCompletes ==
    (TimeoutLocked /\ mountedRef /\ Quiet) =>
        \/ /\ completions = 0
           /\ \E tm \in CompletionTimers : Mounted(tm) /\ ~tm.correct
        \/ /\ completions = 1
           /\ lastCall # None /\ ~lastCall[1].correct

\* C4: with no game mounted no tick or completion timer is pending, and
\* onComplete has never run for a round that had ended.
UnmountCancelsTimers ==
    /\ game = "none" => (TickTimers = {} /\ CompletionTimers = {})
    /\ ~lateCalls

\* C4 happens: the game was unmounted with a completion timer pending, which
\* the unmount cleared.
UnmountedWhileLocked == game = "none" /\ "completion" \in cancelled

\* C5: when the countdown of a mounted round has reached 0, the round is
\* locked with the answer shown as the selection and marked incorrect, and
\* handleOptionSelect returns at once.
CountdownEndLocks ==
    (game # "none" /\ gameInitialized /\ mountedRef /\ Quiet /\ timeLeft = 0) =>
        /\ selectedOption = Some(Answer)
        /\ isCorrect = Some(FALSE)
        /\ SelectReturns

\* C5 happens: a round with timerDuration = 2 has counted down to 0.
CountdownEnded ==
    /\ game # "none" /\ gameInitialized /\ mountedRef /\ Quiet
    /\ timerDuration = 2 /\ timeLeft = 0 /\ TimeoutLocked

\* C6: under the App, the game on screen is in the round of the current
\* turn: a round has been initialised for every turn taken so far.
FreshSessionPerTurn ==
    (gameState \in Games /\ game # "none" /\ Quiet) => session = roundsPlayed + 1

\* C7: in MultiplicationGame and WordMathGame a correct selection with t
\* seconds left at difficulty d earns max(1, floor(t * d / 2)) points, which
\* is 15 for t = 15 and d = 2.
MathPointsExact ==
    (award.points # None /\ award.game \in MathGames) =>
        /\ award.points[1] = Max(1, (award.timeLeft * award.difficulty) \div 2)
        /\ (award.timeLeft = 15 /\ award.difficulty = 2) => award.points[1] = 15

\* C7 happens: the award for t = 15, d = 2 in MultiplicationGame.
MathPointsExample ==
    /\ award.game = "multiplication" /\ award.timeLeft = 15 /\ award.difficulty = 2
    /\ award.points = Some(15)

\* C8: in OppositesGame and AnimalGame a correct selection with t seconds
\* left at difficulty d earns max(1, floor(3 * t * d / 10)) points.
PoolPointsExact ==
    (award.points # None /\ award.game \notin MathGames) =>
        award.points[1] = Max(1, (3 * award.timeLeft * award.difficulty) \div 10)

\* C9: a call of onComplete that reports a wrong answer or a timeout passes
\* 0 points.
WrongAnswerPassesZero ==
    (lastCall # None /\ ~lastCall[1].correct) => lastCall[1].points = 0

\* C10: with less time left the award for a correct answer is not larger,
\* and it is at least 1.
AwardMonotone ==
    award.points # None =>
        /\ award.points[1] <= award.pointsLater[1]
        /\ award.points[1] >= 1

\* C10 happens: two awards of one game and difficulty that differ.
AwardGrows ==
    /\ award.points # None /\ award.timeLeft < award.later
    /\ award.points[1] < award.pointsLater[1]

\* C11: whenever generateOptions returns, for a positive correct answer and a
\* difficulty in 1..5, the array it returns has exactly 4 entries, all
\* positive and pairwise distinct, and exactly one of them is the correct
\* answer, whatever offsets, signs and shuffle were drawn.
ReturnedOptionsWellFormed ==
    optionsCall.returned # None =>
        LET r == optionsCall.returned[1]
        IN  /\ Len(r) = 4
            /\ \A i \in 1..4 : r[i] > 0
            /\ Cardinality(Range(r)) = 4
            /\ Cardinality({ i \in 1..4 : r[i] = optionsCall.correctAnswer }) = 1

\* generateOptions(2, 5) has returned: its three decoys are 1, 3 and 4, the
\* only ones this call admits.
OptionsReturnedTightCase ==
    /\ optionsCall.returned # None
    /\ optionsCall.correctAnswer = 2 /\ optionsCall.difficulty = 5
    /\ Range(optionsCall.returned[1]) = {1, 2, 3, 4}

\* C12: for every difficulty in 1..5 and every answer generateProblem can
\* return at that difficulty, the loop of generateOptions can reach 4
\* options: while it has fewer, some pass pushes a wrong answer (at least 3
\* wrong answers are admissible).
LoopCanReachFour ==
    (/\ optionsCall.correctAnswer \in ProblemAnswers(optionsCall.difficulty)
     /\ optionsCall.returned = None
     /\ Len(optionsCall.options) < 4)
    => \E u1 \in Draws, u2 \in Draws :
          OptionsPass(optionsCall.options, optionsCall.correctAnswer,
                      optionsCall.difficulty, u1, u2) # optionsCall.options

\* C14: when the generation throws during initialization, the session gets
\* the canned options and still becomes active: once the updates are
\* rendered and the effects have run, the problem is shown (no loading
\* screen, a selection is accepted) and the countdown is running.
FallbackSessionActive ==
    (/\ game # "none" /\ Quiet /\ mountedRef
     /\ gameInitialized /\ options = FallbackOptions(game)
     /\ selectedOption = None /\ ~isTransitioning /\ timeLeft > 0)
    => /\ problem # None
       /\ \E tm \in timers : tm.kind = "tick" /\ Mounted(tm)

\* The number of distinct answers in the pools of AnimalGame and
\* OppositesGame, for every level a player can have.
PoolAnswers ==
    [d \in 1..LevelCap |->
        [animals   |-> Cardinality(Range(getAnimalsForDifficulty(d))),
         opposites |-> Cardinality({ pair[2] : pair \in Range(getPairsForDifficulty(d)) })]]

\* C13: in every initialized session of every game, the options hold 4
\* pairwise-distinct values of which exactly one is the correct answer (the
\* correct answer and 3 distinct decoys that differ from it); and at every
\* difficulty from 1 on, the pools of AnimalGame and OppositesGame have at
\* least 4 distinct answers.
SessionOptionsWellFormed ==
    /\ (game # "none" /\ gameInitialized /\ problem # None) =>
           /\ Len(options) = 4
           /\ Cardinality(Range(options)) = 4
           /\ Cardinality({ i \in DOMAIN options : options[i] = Answer }) = 1
    /\ \A d \in 1..LevelCap : PoolAnswers[d].animals >= 4 /\ PoolAnswers[d].opposites >= 4

\* A session of AnimalGame is initialized and shown.
AnimalSessionShown ==
    /\ game = "animals" /\ Quiet
    /\ gameInitialized /\ problem # None /\ Answer \in Range(options)

\* C15: a round completion that takes the active player's correctAnswers
\* across level * 5 raises that player's level by one (below level 10), and
\* a completion that does not cross it leaves the level as it is.
LevelUpOnCrossing ==
    [][completions' = completions + 1 =>
         LET before    == players[currentPlayerIndex]
             after     == players'[currentPlayerIndex]
             threshold == before.level * 5
             crosses   == /\ before.correctAnswers < threshold
                          /\ after.correctAnswers >= threshold
         IN  /\ after.level = IF crosses /\ before.level < LevelCap
                              THEN before.level + 1 ELSE before.level
             /\ after.level <= LevelCap]_vars

\* C16: a round completion with (points, isCorrect) adds exactly points to
\* the active player's score and 1 to that player's correctAnswers iff
\* isCorrect, and leaves the other player as it was.
CompletionUpdatesActivePlayer ==
    [][completions' = completions + 1 =>
         LET active == currentPlayerIndex
             other  == 1 - currentPlayerIndex
             call   == lastCall'[1]
         IN  /\ players'[active].score = players[active].score + call.points
             /\ players'[active].correctAnswers =
                    players[active].correctAnswers + (IF call.correct THEN 1 ELSE 0)
             /\ players'[other] = players[other]]_vars

\* A wrong answer with points, after a correct one, has been counted.
WrongAnswerCounted ==
    /\ gameState \in Games /\ roundsPlayed = 3
    /\ lastCall = Some([points |-> 1, correct |-> FALSE])
    /\ players[0].score = 2 /\ players[0].correctAnswers = 1
    /\ players[1].score = 0 /\ players[1].correctAnswers = 1

\* C17: every round completion moves currentPlayerIndex to the other player
\* and adds exactly 1 to roundsPlayed.
TurnsAlternate ==
    [][completions' = completions + 1 =>
         /\ currentPlayerIndex' = 1 - currentPlayerIndex
         /\ roundsPlayed' = roundsPlayed + 1]_vars

\* Three rounds of a match have completed and it is the second player's turn.
ThirdTurnTaken ==
    /\ gameState \in Games /\ completions = 3
    /\ roundsPlayed = 3 /\ currentPlayerIndex = 1

\* C18: the results are shown by exactly the completion that makes
\* roundsPlayed equal totalRounds; a game is shown only while roundsPlayed is
\* below totalRounds; and while the results are shown no completion is
\* processed.
ResultsExactlyAtTotalRounds ==
    [][/\ completions' = completions + 1 =>
            (gameState' = "results" <=> roundsPlayed' = gameSettings.totalRounds)
       /\ gameState' \in Games => roundsPlayed' < gameSettings'.totalRounds
       /\ gameState = "results" =>
            /\ completions' = completions
            /\ gameState' = "results" => <<players, roundsPlayed>>' = <<players, roundsPlayed>>
      ]_vars

\* A match of 6 rounds has ended.
ResultsShown ==
    gameState = "results" /\ gameSettings.totalRounds = 6 /\ roundsPlayed = 6

\* C19: whenever a game is shown, it is one of the two for the age of the
\* active player: opposites or animals below 6, multiplication or wordmath
\* from 6 on.
GameFitsActivePlayer ==
    gameState \in Games =>
        gameState \in selectGameForPlayer(players[currentPlayerIndex])

\* C20: a call of preloadImage for a url its cache marks as loaded returns
\* a promise that is already resolved, starts no image request and no
\* timeout, and leaves the cache and the earlier calls as they are.
CachedPreloadIsNoOp ==
    [][Len(preloads') = Len(preloads) + 1 =>
         LET call == preloads'[Len(preloads')]
         IN  call.url \in imageCache[call.impl] =>
                /\ call.promise = "resolved"
                /\ call.image = "none" /\ call.timeout = "none"
                /\ imageCache' = imageCache
                /\ SubSeq(preloads', 1, Len(preloads)) = preloads]_vars

\* The hook's preloadImage was called for a url that an earlier call loaded.
CachedPreloadCalled ==
    \E i \in DOMAIN preloads, j \in DOMAIN preloads :
        /\ i < j /\ preloads[i].url = preloads[j].url
        /\ preloads[i].impl = "hook" /\ preloads[j].impl = "hook"
        /\ preloads[i].image = "loaded"
        /\ preloads[j].image = "none" /\ preloads[j].promise = "resolved"

\* C21: a call of preloadImage for an uncached url settles once, by the
\* first of its three events: it is pending only while its image is loading
\* and its timeout has not fired, it is resolved only by its image's load,
\* and it is rejected only by its image's error or its timeout.
PreloadSettlesByFirstEvent ==
    \A i \in DOMAIN preloads :
        LET call == preloads[i]
        IN  call.image # "none" =>
               /\ call.promise = "pending" <=>
                      (call.image = "loading" /\ call.timeout = "pending")
               /\ call.promise = "resolved" => call.image = "loaded"
               /\ call.promise = "rejected" =>
                      (call.image = "failed" \/ call.timeout = "fired")

\* C22: a call of preloadImage for a url its cache does not hold starts its
\* own image request and its own timeout, also while an earlier call for the
\* same url is still loading; and every load, error and timeout event is
\* that of one call and changes no other call.
PreloadsNotDeduplicated ==
    [][/\ Len(preloads') = Len(preloads) + 1 =>
            LET call == preloads'[Len(preloads')]
            IN  call.url \notin imageCache[call.impl] =>
                   /\ call.image = "loading" /\ call.timeout = "pending"
                   /\ call.promise = "pending"
                   /\ SubSeq(preloads', 1, Len(preloads)) = preloads
       /\ \A i \in DOMAIN preloads, j \in DOMAIN preloads :
            (i # j /\ preloads'[i] # preloads[i]) => preloads'[j] = preloads[j]
      ]_vars

\* Two calls of AnimalGame's preloadImage for the same url are loading at
\* the same time, each with its timeout pending.
TwoRequestsForOneUrl ==
    \E i \in DOMAIN preloads, j \in DOMAIN preloads :
        /\ i < j /\ preloads[i].url = preloads[j].url
        /\ preloads[i].impl = "game" /\ preloads[j].impl = "game"
        /\ preloads[i].image = "loading" /\ preloads[j].image = "loading"
        /\ preloads[i].timeout = "pending" /\ preloads[j].timeout = "pending"

\* C23: activating Try Again of the boundary that caught a game's rendering
\* error resets the whole match: both players back to score 0 and level 1,
\* roundsPlayed 0, and the selection shown.
GameRetryResetsMatch ==
    [][(/\ hasError["game"] /\ ~hasError'["game"]
        /\ ~hasError["app"] /\ ~hasError'["app"])
       => /\ players' = [i \in {0, 1} |-> IF i = 0 THEN Player(5) ELSE Player(7)]
          /\ roundsPlayed' = 0
          /\ gameState' = "selection"]_vars

\* C24: a step that sets imageError or imageLoaded within a round leaves
\* problem, options, selectedOption, isCorrect, timeLeft, score and the
\* pending timers as they are; the render that shows only that change runs
\* no effect and no cleanup, clears no timer and leaves handleOptionSelect
\* accepting or returning as before; and with either of them set a round
\* locked by a selection has its completion pending or done, once.
ImageStateOnlyChangesPicture ==
    /\ [][((imageError' /\ ~imageError) \/ (imageLoaded' /\ ~imageLoaded))
           => UNCHANGED <<problem, options, selectedOption, isCorrect, timeLeft,
                          score, gameInitialized, isTransitioning, timers, refVars,
                          cleanup, pendingEffects>>]_vars
    /\ [][(/\ <<rendered.imageLoaded, rendered.imageError>>
                # <<rendered'.imageLoaded, rendered'.imageError>>
            /\ [rendered' EXCEPT !.imageLoaded = rendered.imageLoaded,
                                 !.imageError = rendered.imageError] = rendered)
           => /\ UNCHANGED <<stateVars, timers, refVars, cleanup, pendingEffects>>
              /\ SelectReturns' = SelectReturns]_vars
    /\ []((game # "none" /\ mountedRef /\ (imageError \/ imageLoaded) /\ UserLocked) =>
             \/ completions = 0 /\ Cardinality(CompletionTimers) = 1
             \/ completions = 1 /\ CompletionTimers = {})

\* C24 happens: the picture failed while the round was open, and the round
\* went on counting down, took a selection and called onComplete.
CompletedWithoutPicture ==
    /\ game # "none" /\ imageError /\ ~imageLoaded
    /\ UserLocked /\ completions = 1
    /\ timeLeft < timerDuration /\ timeLeft > 0

\* C25: a tick callback of the mounted game that runs while the round is
\* open (initialised, nothing selected, timeLeft > 0) takes exactly 1 off
\* timeLeft; and once an answer is locked timeLeft stays as it is for the
\* rest of the round, whatever tick was pending at the lock.
TickTakesOneUntilLock ==
    /\ [][(\E tm \in TickTimers :
               /\ timers' = timers \ {tm} /\ rendered' = rendered /\ game' = game
               /\ Mounted(tm)
               /\ gameInitialized /\ selectedOption = None /\ timeLeft > 0)
           => timeLeft' = timeLeft - 1]_vars
    /\ [][(game # "none" /\ game' = game /\ inst' = inst /\ session' = session
            /\ selectedOption # None)
           => timeLeft' = timeLeft]_vars

\* C25 happens: a selection locked the round with a tick pending, and the
\* tick is gone with timeLeft as it was at the lock.
LockedWithTickPending ==
    /\ UserLocked /\ Quiet /\ mountedRef
    /\ timeLeft = 1 /\ timerDuration = 2
    /\ TickTimers = {} /\ completions = 1

\* C26: the render that re-runs the mount effect, because difficulty or
\* timerDuration changed, leaves no tick and no completion timer of the
\* game pending and schedules none; every timer pending for the mounted game
\* was scheduled in its current round; and onComplete never runs for a round
\* that a re-initialization has ended.
ReinitCancelsTimers ==
    /\ [][(game # "none" /\ game' = game /\ mountedRef /\ ~mountedRef')
           => /\ \A tm \in timers' : tm.inst # inst
              /\ timers' \subseteq timers]_vars
    /\ []((game # "none") =>
             /\ \A tm \in timers : tm.inst = inst => tm.session = session
             /\ ~lateCalls)

\* C26 happens: a round locked by a selection, whose onComplete had not run
\* yet, is being re-initialised: the cleanup of the mount effect has run,
\* initializeGame is next, and the completion timer is gone.
ReinitClearedCompletion ==
    /\ game # "none" /\ UserLocked /\ completions = 0
    /\ ~mountedRef /\ pendingEffects # <<>> /\ Head(pendingEffects) = "mount"
    /\ session >= 1 /\ timers = {}

\* C27: every entry of the array generateOptions returns other than the
\* correct answer is at a distance of 1..(7 - min(difficulty, 5)) from it;
\* for difficulty 1 and answer 12 the array holds 12 and three distinct
\* positive wrong answers at a distance of 1..6.
DecoysWithinOffset ==
    optionsCall.returned # None =>
        LET r      == optionsCall.returned[1]
            c      == optionsCall.correctAnswer
            widest == 7 - Min(optionsCall.difficulty, 5)
            decoys == { r[i] : i \in { j \in DOMAIN r : r[j] # c } }
        IN  /\ \A w \in decoys :
                  (IF w > c THEN w - c ELSE c - w) \in 1..widest
            /\ (c = 12 /\ optionsCall.difficulty = 1) =>
                  /\ c \in Range(r)
                  /\ Cardinality(decoys) = 3
                  /\ decoys \subseteq (6..18) \ {12}

\* C27 happens: generateOptions(12, 1) has returned, with the farthest wrong
\* answers it admits on both sides.
DecoysAtWidestOffset ==
    /\ optionsCall.returned # None
    /\ optionsCall.correctAnswer = 12 /\ optionsCall.difficulty = 1
    /\ {6, 18} \subseteq Range(optionsCall.returned[1])

OneTimerOfEachKind ==
    /\ Cardinality(TickTimers) <= 1
    /\ Cardinality(CompletionTimers) <= 1
    /\ \A tm \in TickTimers : timerRef = Some(tm.id)
    /\ \A tm \in CompletionTimers : completionRef = Some(tm.id)

\* C31 happens: in the second second of a round a selection has scheduled
\* the completion timer while the tick scheduled after the first tick fired
\* is still pending.
TickAndCompletionPending ==
    /\ game # "none" /\ UserLocked
    /\ timerDuration = 2 /\ timeLeft = 1
    /\ Cardinality(TickTimers) = 1 /\ Cardinality(CompletionTimers) = 1

\* C32: in an initialised round selectedOption is set exactly when isCorrect
\* is set and exactly when isTransitioning is true; isCorrect = true only
\* with the answer selected; and the answer selected with isCorrect = false
\* only when the countdown has ended, which is the timeout lock.
LockFieldsCoupled ==
    (game # "none" /\ gameInitialized) =>
        /\ (selectedOption # None) <=> (isCorrect # None)
        /\ (isCorrect # None) <=> isTransitioning
        /\ isCorrect = Some(TRUE) => selectedOption = Some(Answer)
        /\ (problem # None /\ selectedOption = Some(Answer) /\ isCorrect = Some(FALSE))
              => timeLeft = 0

\* C32 happens: AnimalGame locked by the timeout, the animal's name shown as
\* the selection and marked incorrect, the completion timer pending.
AnimalTimeoutLock ==
    /\ game = "animals" /\ gameInitialized /\ TimeoutLocked
    /\ isTransitioning /\ timeLeft = 0
    /\ CompletionTimers # {}

\* C33: initializeGame leaves score as it is, and every call of onComplete
\* that a session makes passes the score the component holds, which is the
\* total of all rounds since the mount.
ScoreKeptAcrossRounds ==
    [][/\ session' = session + 1 => score' = score
       /\ completions' = completions + 1 => lastCall'[1].points = score]_vars

\* C33 happens: a math game in its second round reports a wrong answer and
\* passes the point earned in the first round.
LaterRoundPassesTotal ==
    /\ game \in MathGames /\ session = 2 /\ completions = 1
    /\ lastCall = Some([points |-> score, correct |-> FALSE])
    /\ score >= 1

CacheGrowsByLoadsOnly ==
    [][\A impl \in DOMAIN imageCache :
          /\ imageCache[impl] \subseteq imageCache'[impl]
          /\ \A url \in imageCache'[impl] \ imageCache[impl] :
                \E i \in DOMAIN preloads :
                   /\ preloads[i].impl = impl /\ preloads[i].url = url
                   /\ preloads[i].image = "loading" /\ preloads'[i].image = "loaded"]_vars

\* C35 happens: the views are unmounted with a url in the cache of the hook,
\* and an image of the ImagePreloader that loaded after the cleanup of its
\* effect has left the cache of the component empty.
CacheKeptAcrossReset ==
    /\ imageCache["hook"] # {} /\ hasError["app"]
    /\ imageCache["component"] = {}
    /\ \E i \in DOMAIN preloads :
          /\ preloads[i].impl = "component" /\ preloads[i].image = "loaded"
          /\ ~preloads[i].mounted

\* C36: from startGame until the reset, roundsPlayed is at most
\* totalRounds, currentPlayerIndex is 0 or 1, and it is the index startGame
\* set (the younger player's) plus roundsPlayed, modulo 2.
TurnFollowsRoundsPlayed ==
    gameState # "selection" =>
        LET start == IF players[0].age <= players[1].age THEN 0 ELSE 1
        IN  /\ roundsPlayed <= gameSettings.totalRounds
            /\ currentPlayerIndex \in {0, 1}
            /\ currentPlayerIndex = (start + roundsPlayed) % 2

\* C36 happens: the last round of a match of four, the second player's.
LastRoundOfFour ==
    /\ gameState \in Games /\ gameSettings.totalRounds = 4
    /\ roundsPlayed = 3 /\ currentPlayerIndex = 1

\* C37: from startGame until the reset, each player's level is in 1..10,
\* each player's score is at least 0 and not smaller than it was, and the
\* two players' correctAnswers add up to at most roundsPlayed.
MatchRecordsBounded ==
    [][gameState' # "selection" =>
          /\ \A i \in {0, 1} :
                /\ players'[i].level \in 1..LevelCap
                /\ players'[i].score >= 0
                /\ gameState # "selection" => players'[i].score >= players[i].score
          /\ players'[0].correctAnswers + players'[1].correctAnswers <= roundsPlayed']_vars

\* C37 happens: the first player has reached level 2 with all five answers
\* correct, the second has none correct in four rounds.
LevelTwoAfterNineRounds ==
    /\ gameState \in Games /\ roundsPlayed = 9
    /\ players[0].level = 2 /\ players[0].correctAnswers = 5
    /\ players[0].score >= 1
    /\ players[1].correctAnswers = 0 /\ players[1].level = 1

\* C38: a call of preloadImages requests a url only when the request it
\* awaited has settled, requests no url that is cached or has failed, passes
\* over no other url, and leaves loading false when it ends.
PreloadImagesSkipsAndEnds ==
    [][\A i \in DOMAIN batches' :
          LET new == batches'[i]
              old == IF i \in DOMAIN batches THEN batches[i]
                     ELSE [new EXCEPT !.pos = 0, !.call = 0, !.finished = FALSE]
          IN  /\ (new.call # old.call /\ new.call # 0) =>
                    /\ old.call # 0 => preloads[old.call].promise # "pending"
                    /\ preloads'[new.call].url = new.urls[new.pos]
                    /\ new.urls[new.pos] \notin imageCache["hook"] \cup failedImages
              /\ \A k \in (old.pos + 1)..(new.pos - 1) :
                    new.urls[k] \in imageCache["hook"] \cup failedImages
              /\ (new.finished /\ ~old.finished) => ~loading']_vars

\* C39: resetGame, from the results or from any state in which the boundary
\* of the App has caught, leaves the selection screen, player index 0,
\* 0 rounds played, no error and both players at score 0, level 1 and
\* 0 correct answers, and leaves gameSettings and isDarkMode as they were.
ResetGameFrame ==
    [][(\/ gameState = "results" /\ gameState' # "results"
        \/ hasError["app"] /\ ~hasError'["app"]) =>
          /\ gameState' = "selection"
          /\ currentPlayerIndex' = 0
          /\ roundsPlayed' = 0
          /\ appError' = None
          /\ \A i \in {0, 1} :
                /\ players'[i].score = 0 /\ players'[i].level = 1
                /\ players'[i].correctAnswers = 0
          /\ gameSettings' = gameSettings
          /\ isDarkMode' = isDarkMode]_vars

\* C39 happens: back on the selection screen after a match of four rounds
\* in which a round was completed, in dark mode.
ResetInDarkMode ==
    /\ gameState = "selection" /\ ~hasError["app"]
    /\ lastCall # None /\ gameSettings.totalRounds = 4 /\ isDarkMode
    /\ currentPlayerIndex = 0 /\ roundsPlayed = 0
    /\ players = [i \in {0, 1} |-> IF i = 0 THEN Player(5) ELSE Player(7)]

====
